---------------------------- MODULE Spec2Model ----------------------------
(***************************************************************************)
(* A model of the tsurlfilter content-blocking engine: the network engine  *)
(* index (src/src/engine/network-engine.ts), the engine facade             *)
(* (src/src/engine/engine.ts), the cosmetic lookup table                   *)
(* (src/unnamed/part_001) and the cookie filtering module                  *)
(* (src/src/utils.ts).                                                     *)
(*                                                                         *)
(* JavaScript strings are modelled as sequences of one-character strings,  *)
(* so that substring, charCodeAt, split, trim and toLowerCase are computed *)
(* the way the code computes them.                                         *)
(***************************************************************************)
EXTENDS Integers, Sequences, FiniteSets, TLC

\* The absence value (null / undefined) of the source.
Null == "null"

(***************************************************************************)
(* Characters                                                              *)
(***************************************************************************)
LowerAlpha == <<"a","b","c","d","e","f","g","h","i","j","k","l","m",
                "n","o","p","q","r","s","t","u","v","w","x","y","z">>

UpperAlpha == <<"A","B","C","D","E","F","G","H","I","J","K","L","M",
                "N","O","P","Q","R","S","T","U","V","W","X","Y","Z">>

DigitChars == <<"0","1","2","3","4","5","6","7","8","9">>

\* The other ASCII characters the model's strings use, with their codes.
PunctCode == (" " :> 32) @@ ("$" :> 36) @@ ("%" :> 37) @@ ("*" :> 42) @@ ("," :> 44)
             @@ ("-" :> 45) @@ ("." :> 46) @@ ("/" :> 47) @@ (":" :> 58) @@ (";" :> 59)
             @@ ("=" :> 61) @@ ("@" :> 64) @@ ("^" :> 94) @@ ("_" :> 95) @@ ("|" :> 124)

IsIn(seq, c) == \E i \in 1..Len(seq) : seq[i] = c

Range(seq) == {seq[i] : i \in 1..Len(seq)}

\* The code of every character of the model's alphabet: a-z are 97..122,
\* A-Z are 65..90, 0-9 are 48..57.
CodeOf ==
    [c \in Range(LowerAlpha) \cup Range(UpperAlpha) \cup Range(DigitChars) \cup DOMAIN PunctCode |->
        IF c \in Range(LowerAlpha) THEN 96 + (CHOOSE i \in 1..26 : LowerAlpha[i] = c)
        ELSE IF c \in Range(UpperAlpha) THEN 64 + (CHOOSE i \in 1..26 : UpperAlpha[i] = c)
        ELSE IF c \in Range(DigitChars) THEN 47 + (CHOOSE i \in 1..10 : DigitChars[i] = c)
        ELSE PunctCode[c]]

\* The lowercase form of every character of the model's alphabet.
LowerOf ==
    [c \in DOMAIN CodeOf |->
        IF c \in Range(UpperAlpha) THEN LowerAlpha[CHOOSE i \in 1..26 : UpperAlpha[i] = c]
        ELSE c]

\* String.prototype.charCodeAt for one character.
charCode(c) == CodeOf[c]

\* String.prototype.toLowerCase.
toLowerCase(s) == [i \in 1..Len(s) |-> LowerOf[s[i]]]

\* String.prototype.substring(begin, end), 0-based and end-exclusive as in the source.
substring(s, begin, end) == SubSeq(s, begin + 1, end)

\* String.prototype.indexOf(sub) === 0
startsWith(s, sub) == Len(s) >= Len(sub) /\ SubSeq(s, 1, Len(sub)) = sub

\* String.prototype.indexOf(sub) >= 0
contains(s, sub) ==
    \E i \in 0..(Len(s) - Len(sub)) : SubSeq(s, i + 1, i + Len(sub)) = sub

\* String.prototype.split('.') on a non-empty string without empty labels.
RECURSIVE splitOn(_, _)
splitOn(s, sep) ==
    IF ~IsIn(s, sep) THEN <<s>>
    ELSE LET i == CHOOSE k \in 1..Len(s) : s[k] = sep /\ \A m \in 1..(k - 1) : s[m] # sep
         IN  <<SubSeq(s, 1, i - 1)>> \o splitOn(SubSeq(s, i + 1, Len(s)), sep)

(***************************************************************************)
(* djb2 hash.  The source computes 33 * hash + charCode in IEEE doubles     *)
(* with no truncation.  A hash value is kept exactly as <<hi, lo>> with     *)
(* value hi * HashLimb + lo; every string of at most eight characters       *)
(* hashes below 2^53, where the double arithmetic of the source is exact.   *)
(***************************************************************************)
HashLimb == 10 ^ 7

HashSeed == 5381

HashMul == 33

RECURSIVE fastHashFrom(_, _, _, _)
fastHashFrom(str, idx, end, hash) ==
    IF idx >= end THEN hash
    ELSE LET low == HashMul * hash[2] + charCode(str[idx + 1])
             next == <<HashMul * hash[1] + (low \div HashLimb), low % HashLimb>>
         IN  fastHashFrom(str, idx + 1, end, next)

\* fastHashBetween(str, begin, end): hash = 5381; hash = 33 * hash + str.charCodeAt(idx)
fastHashBetween(str, begin, end) ==
    fastHashFrom(str, begin, end, <<HashSeed \div HashLimb, HashSeed % HashLimb>>)

\* fastHash(str): 0 for the empty string, else fastHashBetween(str, 0, str.length)
fastHash(str) ==
    IF str = << >> THEN <<0, 0>> ELSE fastHashBetween(str, 0, Len(str))

(***************************************************************************)
(* Network rules.  NetworkRule, RuleBuilder and RuleStorage are not part   *)
(* of the sources at hand; a rule is the record the specification's data   *)
(* model describes (section 3), built from the rule text.                  *)
(*   thirdParty: "third" for $third-party, "first" for $~third-party,      *)
(*   "any" when the modifier is absent; requestTypes: {} permits all.      *)
(***************************************************************************)
NetworkRuleNames == {"rAz", "rC8", "rDomAz", "rDomC8", "rOther", "rCase", "rWild"}

\* A rule for a subdomain of a domain another rule is for; it is added where the
\* order of the domain lookup is looked at.
SubdomainRuleNames == {"rDomSub"}

NetworkRule ==
    [n \in NetworkRuleNames \cup SubdomainRuleNames |->
        CASE n = "rAz" ->     \* az-ads
               [text |-> <<"a","z","-","a","d","s">>, pattern |-> <<"a","z","-","a","d","s">>, matchCase |-> FALSE,
                permittedDomains |-> << >>, restrictedDomains |-> << >>,
                thirdParty |-> "any", requestTypes |-> {}, whitelist |-> FALSE]
          [] n = "rC8" ->     \* c8-ads^
               [text |-> <<"c","8","-","a","d","s","^">>, pattern |-> <<"c","8","-","a","d","s","^">>, matchCase |-> FALSE,
                permittedDomains |-> << >>, restrictedDomains |-> << >>,
                thirdParty |-> "any", requestTypes |-> {}, whitelist |-> FALSE]
          [] n = "rDomAz" ->  \* ads$domain=az.io|x.io
               [text |-> <<"a","d","s","$","d","o","m","a","i","n","=","a","z",".","i","o","|","x",".","i","o">>, pattern |-> <<"a","d","s">>, matchCase |-> FALSE,
                permittedDomains |-> <<<<"a","z",".","i","o">>, <<"x",".","i","o">>>>, restrictedDomains |-> << >>,
                thirdParty |-> "any", requestTypes |-> {}, whitelist |-> FALSE]
          [] n = "rDomC8" ->  \* ads$domain=c8.io|~b.c8.io,third-party
               [text |-> <<"a","d","s","$","d","o","m","a","i","n","=","c","8",".","i","o","|","~","b",".","c","8",".","i","o",",","t","h","i","r","d","-","p","a","r","t","y">>, pattern |-> <<"a","d","s">>,
                matchCase |-> FALSE,
                permittedDomains |-> <<<<"c","8",".","i","o">>>>, restrictedDomains |-> <<<<"b",".","c","8",".","i","o">>>>,
                thirdParty |-> "third", requestTypes |-> {}, whitelist |-> FALSE]
          [] n = "rOther" ->  \* ||x.io^$script,document
               [text |-> <<"|","|","x",".","i","o","^","$","s","c","r","i","p","t",",","d","o","c","u","m","e","n","t">>, pattern |-> <<"|","|","x",".","i","o","^">>,
                matchCase |-> FALSE,
                permittedDomains |-> << >>, restrictedDomains |-> << >>,
                thirdParty |-> "any", requestTypes |-> {"Script", "Document"},
                whitelist |-> FALSE]
          [] n = "rCase" ->   \* @@AZ-ads$match-case
               [text |-> <<"@","@","A","Z","-","a","d","s","$","m","a","t","c","h","-","c","a","s","e">>, pattern |-> <<"A","Z","-","a","d","s">>, matchCase |-> TRUE,
                permittedDomains |-> << >>, restrictedDomains |-> << >>,
                thirdParty |-> "any", requestTypes |-> {}, whitelist |-> TRUE]
          [] n = "rDomSub" -> \* ads$domain=b.az.io
               [text |-> <<"a","d","s","$","d","o","m","a","i","n","=","b",".","a","z",".","i","o">>, pattern |-> <<"a","d","s">>, matchCase |-> FALSE,
                permittedDomains |-> <<<<"b",".","a","z",".","i","o">>>>, restrictedDomains |-> << >>,
                thirdParty |-> "any", requestTypes |-> {}, whitelist |-> FALSE]
          [] n = "rWild" ->   \* |http://x.io/*ads|
               [text |-> <<"|","h","t","t","p",":","/","/","x",".","i","o","/","*","a","d","s","|">>, pattern |-> <<"|","h","t","t","p",":","/","/","x",".","i","o","/","*","a","d","s","|">>,
                matchCase |-> FALSE,
                permittedDomains |-> << >>, restrictedDomains |-> << >>,
                thirdParty |-> "any", requestTypes |-> {}, whitelist |-> FALSE]]

\* The characters of a pattern that are not literal: wildcard, separator, anchor.
PatternSpecials == {"*", "^", "|"}

\* The maximal runs of literal characters of a pattern, left to right.
RECURSIVE literalRuns(_, _)
literalRuns(p, run) ==
    IF p = << >> THEN (IF run = << >> THEN << >> ELSE <<run>>)
    ELSE IF Head(p) \in PatternSpecials
         THEN (IF run = << >> THEN << >> ELSE <<run>>) \o literalRuns(Tail(p), << >>)
         ELSE literalRuns(Tail(p), Append(run, Head(p)))

\* NetworkRule.getShortcut: the longest literal run of the pattern (the first of
\* the longest), lowercased; empty when the pattern has no literal character.
getShortcut(rule) ==
    LET runs == literalRuns(rule.pattern, << >>)
    IN  IF runs = << >> THEN << >>
        ELSE LET best == CHOOSE i \in 1..Len(runs) :
                            /\ \A j \in 1..Len(runs) : Len(runs[j]) <= Len(runs[i])
                            /\ \A j \in 1..(i - 1) : Len(runs[j]) < Len(runs[i])
             IN  toLowerCase(runs[best])

\* NetworkRule.getPermittedDomains
getPermittedDomains(rule) == rule.permittedDomains

(***************************************************************************)
(* Requests (section 3): urlLowercase = lower(url); thirdParty is "yes",   *)
(* "no" or Null when there is no source.                                   *)
(***************************************************************************)
NewRequest(url, sourceUrl, sourceHostname, requestType, thirdParty) ==
    [url |-> url, urlLowercase |-> toLowerCase(url), sourceUrl |-> sourceUrl,
     sourceHostname |-> sourceHostname, requestType |-> requestType,
     thirdParty |-> thirdParty]

RequestNames == {"qAz", "qC8", "qCase", "qSub", "qDoc"}

Request ==
    [n \in RequestNames |->
        CASE n = "qAz" ->    \* http://x.io/az-ads from http://az.io/-ads
               NewRequest(<<"h","t","t","p",":","/","/","x",".","i","o","/","a","z","-","a","d","s">>, <<"h","t","t","p",":","/","/","a","z",".","i","o","/","-","a","d","s">>, <<"a","z",".","i","o">>,
                          "Script", "yes")
          [] n = "qC8" ->    \* http://x.io/c8-ads from http://c8.io/az-ads
               NewRequest(<<"h","t","t","p",":","/","/","x",".","i","o","/","c","8","-","a","d","s">>, <<"h","t","t","p",":","/","/","c","8",".","i","o","/","a","z","-","a","d","s">>, <<"c","8",".","i","o">>,
                          "Image", "yes")
          [] n = "qCase" ->  \* http://x.io/AZ-ads with no source
               NewRequest(<<"h","t","t","p",":","/","/","x",".","i","o","/","A","Z","-","a","d","s">>, << >>, << >>, "Image", Null)
          [] n = "qSub" ->   \* http://c8.io/ads from http://b.az.io/c8-ads
               NewRequest(<<"h","t","t","p",":","/","/","c","8",".","i","o","/","a","d","s">>, <<"h","t","t","p",":","/","/","b",".","a","z",".","i","o","/","c","8","-","a","d","s">>, <<"b",".","a","z",".","i","o">>,
                          "Image", "yes")
          [] n = "qDoc" ->   \* http://x.io/ from http://x.io/
               NewRequest(<<"h","t","t","p",":","/","/","x",".","i","o","/">>, <<"h","t","t","p",":","/","/","x",".","i","o","/">>, <<"x",".","i","o">>, "Document", "no")]

(***************************************************************************)
(* NetworkRule.match (section 4.E): request-type mask, domain allow/deny,  *)
(* third-party constraint, then the pattern against url (match-case) or    *)
(* urlLowercase.                                                           *)
(***************************************************************************)
\* [A-Za-z0-9_.%-], the characters the separator ^ does not stand for.
WordChars ==
    Range(LowerAlpha) \cup Range(UpperAlpha) \cup Range(DigitChars) \cup {"_", ".", "%", "-"}

IsWordChar(c) == c \in WordChars

\* [a-z0-9-_.], the characters of a host name.
HostChars == Range(LowerAlpha) \cup Range(DigitChars) \cup {"_", ".", "-"}

IsHostChar(c) == c \in HostChars

UrlSchemes == {<<"h","t","t","p",":","/","/">>, <<"h","t","t","p","s",":","/","/">>, <<"w","s",":","/","/">>, <<"w","s","s",":","/","/">>}

\* || anchors the pattern at the start of the host or of one of its labels:
\* what precedes is a scheme, optionally followed by host characters ending in a dot.
IsHostStart(u, j) ==
    \E scheme \in UrlSchemes :
        /\ j - 1 >= Len(scheme)
        /\ SubSeq(u, 1, Len(scheme)) = scheme
        /\ \/ j - 1 = Len(scheme)
           \/ /\ u[j - 1] = "."
              /\ j - 2 > Len(scheme)
              /\ \A k \in (Len(scheme) + 1)..(j - 1) : IsHostChar(u[k])

\* The pattern from position i on matches u from position j on.
RECURSIVE matchPatternFrom(_, _, _, _)
matchPatternFrom(p, i, u, j) ==
    IF i > Len(p) THEN TRUE
    ELSE IF p[i] = "*" THEN \E k \in j..(Len(u) + 1) : matchPatternFrom(p, i + 1, u, k)
    ELSE IF p[i] = "^" THEN
        \/ j <= Len(u) /\ ~IsWordChar(u[j]) /\ matchPatternFrom(p, i + 1, u, j + 1)
        \/ j = Len(u) + 1 /\ matchPatternFrom(p, i + 1, u, j)
    ELSE IF p[i] = "|" THEN j = Len(u) + 1 /\ i = Len(p)
    ELSE j <= Len(u) /\ u[j] = p[i] /\ matchPatternFrom(p, i + 1, u, j + 1)

matchPattern(p, u) ==
    IF startsWith(p, <<"|","|">>)
    THEN \E j \in 1..(Len(u) + 1) :
            IsHostStart(u, j) /\ matchPatternFrom(SubSeq(p, 3, Len(p)), 1, u, j)
    ELSE IF startsWith(p, <<"|">>)
    THEN matchPatternFrom(SubSeq(p, 2, Len(p)), 1, u, 1)
    ELSE \E j \in 1..(Len(u) + 1) : matchPatternFrom(p, 1, u, j)

\* host is domain or one of its subdomains
isDomainOrSubdomainOf(host, domain) ==
    \/ host = domain
    \/ /\ Len(host) > Len(domain)
       /\ SubSeq(host, Len(host) - Len(domain), Len(host)) = <<".">> \o domain

isDomainOrSubdomainOfAny(host, domains) ==
    \E i \in 1..Len(domains) : isDomainOrSubdomainOf(host, domains[i])

matchDomain(rule, host) ==
    /\ ~isDomainOrSubdomainOfAny(host, rule.restrictedDomains)
    /\ rule.permittedDomains # << >> => isDomainOrSubdomainOfAny(host, rule.permittedDomains)

matchRequestType(rule, request) ==
    rule.requestTypes = {} \/ request.requestType \in rule.requestTypes

matchThirdParty(rule, request) ==
    /\ rule.thirdParty = "third" => request.thirdParty = "yes"
    /\ rule.thirdParty = "first" => request.thirdParty # "yes"

\* rule.match(request)
match(rule, request) ==
    /\ matchRequestType(rule, request)
    /\ matchDomain(rule, request.sourceHostname)
    /\ matchThirdParty(rule, request)
    /\ matchPattern(rule.pattern, IF rule.matchCase THEN request.url ELSE request.urlLowercase)

(***************************************************************************)
(* State                                                                   *)
(***************************************************************************)
VARIABLES
    \* RuleStorage: storage index -> name of the rule whose text starts there
    ruleStorage,
    \* the storage scanner's position: the index the next scanned rule gets
    storagePos,
    \* NetworkEngine
    rulesCount, domainsLookupTable, shortcutsLookupTable, shortcutsHistogram, otherRules,
    \* the last matchAll / matchRequest call since the last addRule, and what it returned
    lastMatch,
    \* how many NetworkEngine.addRule calls were made
    addRuleCalls,
    \* the last NetworkEngine.addRule call of an AddRule or AddRuleAgain step: its
    \* rule, its storage index and the shortcuts addRuleToShortcutsTable got from
    \* getRuleShortcuts
    lastAdd

netVars == <<ruleStorage, storagePos, rulesCount, domainsLookupTable,
             shortcutsLookupTable, shortcutsHistogram, otherRules, lastMatch,
             addRuleCalls, lastAdd>>

\* How many addRule calls a behaviour of the model makes at most.
MaxRules == 3

(***************************************************************************)
(* Map<K, V> of the source as a function whose domain is the set of keys.  *)
(***************************************************************************)
EmptyMap == << >>

MapHas(m, k) == k \in DOMAIN m

MapSet(m, k, v) == [x \in (DOMAIN m) \cup {k} |-> IF x = k THEN v ELSE m[x]]

MapDelete(m, k) == [x \in (DOMAIN m) \ {k} |-> m[x]]

(***************************************************************************)
(* NetworkEngine                                                           *)
(***************************************************************************)
SHORTCUT_LENGTH == 5

MAX_URL_LENGTH == 4 * 1024

\* "Max int32", the start value of minCount
MaxInt32 == 2147483647

\* shortcutHash = -1 before a shortcut is chosen
NoHash == <<-1>>

\* A rule object: the rule built from the line at a storage index.
RuleObject(name, index) == [name |-> name, index |-> index]

\* The absence value where a rule object is expected.
NullRule == RuleObject(Null, -1)

\* RuleStorage.retrieveNetworkRule(storageIdx): the rule, or the absence value
retrieveNetworkRule(storage, storageIdx) ==
    IF storageIdx \in DOMAIN storage
    THEN RuleObject(storage[storageIdx], storageIdx)
    ELSE NullRule

\* new Request(request.sourceUrl, '', RequestType.Document) of Engine.matchRequest
SourceRequest(request) == NewRequest(request.sourceUrl, << >>, << >>, "Document", Null)

\* rule.match(request) for every rule and every request the model matches (the
\* requests and the requests Engine.matchRequest builds from their source URLs),
\* computed once.
MatchTable ==
    [n \in NetworkRuleNames \cup SubdomainRuleNames |->
        [r \in {Request[q] : q \in RequestNames}
                \cup {SourceRequest(Request[q]) : q \in RequestNames} |->
            match(NetworkRule[n], r)]]

\* rule.match(request) for a rule object
ruleMatch(ruleObj, request) ==
    IF request \in DOMAIN MatchTable[ruleObj.name] THEN MatchTable[ruleObj.name][request]
    ELSE match(NetworkRule[ruleObj.name], request)

\* NetworkEngine.isAnyURLShortcut
isAnyURLShortcut(rule) ==
    LET shortcut == getShortcut(rule)
    IN  \/ Len(shortcut) < 6 /\ startsWith(shortcut, <<"w","s",":">>)
        \/ Len(shortcut) < 7 /\ startsWith(shortcut, <<"|","w","s">>)
        \/ Len(shortcut) < 9 /\ startsWith(shortcut, <<"h","t","t","p">>)
        \/ Len(shortcut) < 10 /\ startsWith(shortcut, <<"|","h","t","t","p">>)

\* NetworkEngine.getRuleShortcuts: the list of shortcuts; the null the source returns
\* is the empty list here, its only caller treats the two alike.
getRuleShortcuts(rule) ==
    LET shortcut == getShortcut(rule)
    IN  IF Len(shortcut) < SHORTCUT_LENGTH THEN << >>
        ELSE IF isAnyURLShortcut(rule) THEN << >>
        ELSE [i \in 1..(Len(shortcut) - SHORTCUT_LENGTH) |->
                 substring(shortcut, i - 1, i - 1 + SHORTCUT_LENGTH)]

\* A forEach that takes the last of the least used shortcuts.
RECURSIVE leastUsedShortcutLast(_, _, _, _)
leastUsedShortcutLast(shortcuts, i, histogram, best) ==
    IF i > Len(shortcuts) THEN best
    ELSE LET hash == fastHash(shortcuts[i])
             count == IF MapHas(histogram, hash) THEN histogram[hash] ELSE 0
         IN  leastUsedShortcutLast(shortcuts, i + 1, histogram,
                                   IF count <= best[2] THEN <<hash, count>> ELSE best)

\* The forEach of addRuleToShortcutsTable: <<shortcutHash, minCount>> after the
\* shortcuts from position i on have been looked at.
RECURSIVE leastUsedShortcut(_, _, _, _)
leastUsedShortcut(shortcuts, i, histogram, best) ==
    IF i > Len(shortcuts) THEN best
    ELSE LET hash == fastHash(shortcuts[i])
             count == IF MapHas(histogram, hash) THEN histogram[hash] ELSE 0
         IN  leastUsedShortcut(shortcuts, i + 1, histogram,
                               IF count < best[2] THEN <<hash, count>> ELSE best)

\* An addRuleToShortcutsTable that counts a shortcut only the first time it is used.
addRuleToShortcutsTableCountingOnce(histogram, table, rule, storageIdx) ==
    LET shortcuts == getRuleShortcuts(rule)
    IN  IF shortcuts = << >>
        THEN [added |-> FALSE, histogram |-> histogram, table |-> table]
        ELSE LET best == leastUsedShortcut(shortcuts, 1, histogram, <<NoHash, MaxInt32>>)
                 shortcutHash == best[1]
                 rulesIndexes == IF MapHas(table, shortcutHash) THEN table[shortcutHash]
                                 ELSE << >>
             IN  [added |-> TRUE,
                  histogram |-> MapSet(histogram, shortcutHash, 1),
                  table |-> MapSet(table, shortcutHash, Append(rulesIndexes, storageIdx))]

\* NetworkEngine.addRuleToShortcutsTable: [added, histogram, table]
addRuleToShortcutsTable(histogram, table, rule, storageIdx) ==
    LET shortcuts == getRuleShortcuts(rule)
    IN  IF shortcuts = << >>
        THEN [added |-> FALSE, histogram |-> histogram, table |-> table]
        ELSE LET best == leastUsedShortcut(shortcuts, 1, histogram, <<NoHash, MaxInt32>>)
                 shortcutHash == best[1]
                 minCount == best[2]
                 rulesIndexes == IF MapHas(table, shortcutHash) THEN table[shortcutHash]
                                 ELSE << >>
             IN  [added |-> TRUE,
                  histogram |-> MapSet(histogram, shortcutHash, minCount + 1),
                  table |-> MapSet(table, shortcutHash, Append(rulesIndexes, storageIdx))]

\* The forEach of addRuleToDomainsTable over the permitted domains from position i on.
RECURSIVE addToDomains(_, _, _, _)
addToDomains(table, domains, i, storageIdx) ==
    IF i > Len(domains) THEN table
    ELSE LET hash == fastHash(domains[i])
             rulesIndexes == IF MapHas(table, hash) THEN table[hash] ELSE << >>
         IN  addToDomains(MapSet(table, hash, Append(rulesIndexes, storageIdx)),
                          domains, i + 1, storageIdx)

\* An addRuleToDomainsTable that files the rule under its first permitted domain only.
addRuleToDomainsTableFirst(table, rule, storageIdx) ==
    LET permittedDomains == getPermittedDomains(rule)
    IN  IF permittedDomains = << >>
        THEN [added |-> FALSE, table |-> table]
        ELSE [added |-> TRUE,
              table |-> addToDomains(table, <<permittedDomains[1]>>, 1, storageIdx)]

\* NetworkEngine.addRuleToDomainsTable: [added, table]
addRuleToDomainsTable(table, rule, storageIdx) ==
    LET permittedDomains == getPermittedDomains(rule)
    IN  IF permittedDomains = << >>
        THEN [added |-> FALSE, table |-> table]
        ELSE [added |-> TRUE, table |-> addToDomains(table, permittedDomains, 1, storageIdx)]

\* Array.prototype.includes
includes(seq, x) == \E i \in 1..Len(seq) : seq[i] = x

\* NetworkEngine.addRule(rule, storageIdx) on an engine given by its fields n: the
\* fields afterwards
addRule(n, ruleObj, storageIdx) ==
    LET rule == NetworkRule[ruleObj.name]
        s == addRuleToShortcutsTable(n.shortcutsHistogram, n.shortcutsLookupTable,
                                     rule, storageIdx)
        d == addRuleToDomainsTable(n.domainsLookupTable, rule, storageIdx)
    IN  [rulesCount |-> n.rulesCount + 1,
         shortcutsHistogram |-> s.histogram,
         shortcutsLookupTable |-> s.table,
         domainsLookupTable |-> IF s.added THEN n.domainsLookupTable ELSE d.table,
         otherRules |-> IF s.added \/ d.added \/ includes(n.otherRules, ruleObj)
                        THEN n.otherRules
                        ELSE Append(n.otherRules, ruleObj)]

\* An addRule that counts a rule only when a table took it.
NetworkEngineAddRuleCountingNew(ruleObj, storageIdx) ==
    LET rule == NetworkRule[ruleObj.name]
        s == addRuleToShortcutsTable(shortcutsHistogram, shortcutsLookupTable, rule, storageIdx)
        d == addRuleToDomainsTable(domainsLookupTable, rule, storageIdx)
        known == ~s.added /\ ~d.added /\ includes(otherRules, ruleObj)
    IN  /\ shortcutsHistogram' = s.histogram
        /\ shortcutsLookupTable' = s.table
        /\ domainsLookupTable' = IF s.added THEN domainsLookupTable ELSE d.table
        /\ otherRules' = IF s.added \/ d.added \/ includes(otherRules, ruleObj)
                         THEN otherRules
                         ELSE Append(otherRules, ruleObj)
        /\ rulesCount' = IF known THEN rulesCount ELSE rulesCount + 1

\* NetworkEngine.addRule(rule, storageIdx) on the engine of the current state
NetworkEngineAddRule(ruleObj, storageIdx) ==
    LET rule == NetworkRule[ruleObj.name]
        s == addRuleToShortcutsTable(shortcutsHistogram, shortcutsLookupTable, rule, storageIdx)
        d == addRuleToDomainsTable(domainsLookupTable, rule, storageIdx)
    IN  /\ shortcutsHistogram' = s.histogram
        /\ shortcutsLookupTable' = s.table
        /\ domainsLookupTable' = IF s.added THEN domainsLookupTable ELSE d.table
        /\ otherRules' = IF s.added \/ d.added \/ includes(otherRules, ruleObj)
                         THEN otherRules
                         ELSE Append(otherRules, ruleObj)
        /\ rulesCount' = rulesCount + 1

\* NetworkEngine.getSubdomains(hostname): from the top-level domain down to the hostname
RECURSIVE subdomainsFrom(_, _, _)
subdomainsFrom(parts, i, domain) ==
    IF i < 1 THEN << >>
    ELSE LET d == IF domain = << >> THEN parts[i] ELSE parts[i] \o <<".">> \o domain
         IN  <<d>> \o subdomainsFrom(parts, i - 1, d)

getSubdomains(hostname) ==
    LET parts == splitOn(hostname, ".")
    IN  subdomainsFrom(parts, Len(parts), << >>)

\* A variant of matchBucket that returns every retrieved candidate of the bucket
\* without matching it: soundness fails for it.
RECURSIVE matchBucketUnchecked(_, _, _, _)
matchBucketUnchecked(storage, rulesIndexes, k, request) ==
    IF k > Len(rulesIndexes) THEN << >>
    ELSE LET rule == retrieveNetworkRule(storage, rulesIndexes[k])
         IN  (IF rule # NullRule THEN <<rule>> ELSE << >>)
             \o matchBucketUnchecked(storage, rulesIndexes, k + 1, request)

\* A variant of matchBucket that gives up the bucket at the first candidate the
\* storage does not return.
RECURSIVE matchBucketStopping(_, _, _, _)
matchBucketStopping(storage, rulesIndexes, k, request) ==
    IF k > Len(rulesIndexes) THEN << >>
    ELSE LET rule == retrieveNetworkRule(storage, rulesIndexes[k])
         IN  IF rule = NullRule THEN << >>
             ELSE (IF ruleMatch(rule, request) THEN <<rule>> ELSE << >>)
                  \o matchBucketStopping(storage, rulesIndexes, k + 1, request)

\* The rules of one bucket that are retrieved and match, in bucket order.
RECURSIVE matchBucket(_, _, _, _)
matchBucket(storage, rulesIndexes, k, request) ==
    IF k > Len(rulesIndexes) THEN << >>
    ELSE LET rule == retrieveNetworkRule(storage, rulesIndexes[k])
         IN  (IF rule # NullRule /\ ruleMatch(rule, request) THEN <<rule>> ELSE << >>)
             \o matchBucket(storage, rulesIndexes, k + 1, request)

\* Requests at the limits of the URL scan.  The URLs of qLong and qEdge end with
\* c8-ads: in qLong the window c8-ad reaches one character past MAX_URL_LENGTH, in
\* qEdge it is the last window inside it.  The URL of qShort is shorter than a
\* shortcut.
LongRequestNames == {"qLong", "qEdge", "qShort"}

LongUrl(at) == <<"h","t","t","p",":","/","/","x",".","i","o","/">> \o [i \in 1..(at - 12) |-> "a"] \o <<"c","8","-","a","d","s">>

LongRequest ==
    [n \in LongRequestNames |->
        CASE n = "qLong" ->
               NewRequest(LongUrl(MAX_URL_LENGTH - SHORTCUT_LENGTH + 1), << >>, << >>,
                          "Image", Null)
          [] n = "qEdge" ->
               NewRequest(LongUrl(MAX_URL_LENGTH - SHORTCUT_LENGTH), << >>, << >>,
                          "Image", Null)
          [] n = "qShort" ->
               NewRequest(<<"x",".","i","o">>, << >>, << >>, "Image", Null)]

\* The request of a name.
RequestOf(q) == IF q \in LongRequestNames THEN LongRequest[q] ELSE Request[q]

\* fastHashBetween(url, i, i + SHORTCUT_LENGTH) for every window of the URLs the
\* model's requests carry, computed once.
WindowHashes ==
    [u \in {Request[q].urlLowercase : q \in RequestNames}
            \cup {toLowerCase(Request[q].sourceUrl) : q \in RequestNames}
            \cup {LongRequest[q].urlLowercase : q \in LongRequestNames} |->
        [i \in 0..(Len(u) - SHORTCUT_LENGTH) |-> fastHashBetween(u, i, i + SHORTCUT_LENGTH)]]

windowHash(url, i) ==
    IF url \in DOMAIN WindowHashes THEN WindowHashes[url][i]
    ELSE fastHashBetween(url, i, i + SHORTCUT_LENGTH)

\* The hashes of all windows of a URL, by position.
windowHashes(url) ==
    IF url \in DOMAIN WindowHashes THEN WindowHashes[url]
    ELSE [i \in 0..(Len(url) - SHORTCUT_LENGTH) |-> fastHashBetween(url, i, i + SHORTCUT_LENGTH)]

\* The windows of the listed positions, in order: the rules of each bucket that match.
RECURSIVE matchWindowsAt(_, _, _, _, _, _)
matchWindowsAt(storage, table, request, hashes, positions, k) ==
    IF k > Len(positions) THEN << >>
    ELSE matchBucket(storage, table[hashes[positions[k]]], 1, request)
         \o matchWindowsAt(storage, table, request, hashes, positions, k + 1)

\* The for loop of matchShortcutsLookupTable from window i on: the windows
\* i .. urlLen - SHORTCUT_LENGTH in order, of which those whose hash has no bucket
\* add nothing.
matchWindowsFrom(storage, table, request, i, urlLen) ==
    CHOOSE result \in
        {matchWindowsAt(storage, table, request, hashes,
                        SelectSeq([k \in 1..(urlLen - SHORTCUT_LENGTH - i + 1) |-> i + k - 1],
                                  LAMBDA j : MapHas(table, hashes[j])),
                        1) :
            hashes \in {windowHashes(request.urlLowercase)}} : TRUE

\* A lookup that scans the URL to its end.
matchShortcutsUncapped(storage, table, request) ==
    matchWindowsFrom(storage, table, request, 0, Len(request.urlLowercase))

\* NetworkEngine.matchShortcutsLookupTable
matchShortcutsLookupTable(storage, table, request) ==
    LET len == Len(request.urlLowercase)
        urlLen == IF len > MAX_URL_LENGTH THEN MAX_URL_LENGTH ELSE len
    IN  matchWindowsFrom(storage, table, request, 0, urlLen)

\* The forEach of matchDomainsLookupTable over the subdomains from position i on.
RECURSIVE matchDomainsFrom(_, _, _, _, _)
matchDomainsFrom(storage, table, request, domains, i) ==
    IF i > Len(domains) THEN << >>
    ELSE LET hash == fastHash(domains[i])
         IN  (IF MapHas(table, hash) THEN matchBucket(storage, table[hash], 1, request)
              ELSE << >>)
             \o matchDomainsFrom(storage, table, request, domains, i + 1)

\* NetworkEngine.matchDomainsLookupTable
matchDomainsLookupTable(storage, table, request) ==
    IF request.sourceHostname = << >> THEN << >>
    ELSE matchDomainsFrom(storage, table, request, getSubdomains(request.sourceHostname), 1)

\* The otherRules.forEach of matchAll
matchOtherRules(others, request) ==
    SelectSeq(others, LAMBDA r : ruleMatch(r, request))

\* A variant of matchAll that does not look at otherRules: completeness fails for it.
matchAllWithoutOthers(e, request) ==
    matchShortcutsLookupTable(e.storage, e.shortcuts, request)
    \o matchDomainsLookupTable(e.storage, e.domains, request)

\* A variant of matchAll that puts the matches of otherRules first.
matchAllOthersFirst(e, request) ==
    matchOtherRules(e.others, request)
    \o matchShortcutsLookupTable(e.storage, e.shortcuts, request)
    \o matchDomainsLookupTable(e.storage, e.domains, request)

\* NetworkEngine.matchAll(request), on the engine state e
matchAll(e, request) ==
    matchShortcutsLookupTable(e.storage, e.shortcuts, request)
    \o matchDomainsLookupTable(e.storage, e.domains, request)
    \o matchOtherRules(e.others, request)

\* The engine the current state holds.
Engine ==
    [storage |-> ruleStorage, shortcuts |-> shortcutsLookupTable,
     domains |-> domainsLookupTable, others |-> otherRules]

\* Engine.matchRequest: the two rule lists MatchingResult is built from
matchRequest(e, request) ==
    [networkRules |-> matchAll(e, request),
     sourceRules |-> IF request.sourceUrl # << >> THEN matchAll(e, SourceRequest(request))
                     ELSE << >>]

NoMatch == [op |-> "none"]

NoAdd == [op |-> "none"]

\* What an addRule call leaves in lastAdd.
AddRecord(name, storageIdx) ==
    [op |-> "addRule", name |-> name, index |-> storageIdx,
     shortcuts |-> getRuleShortcuts(NetworkRule[name])]

(***************************************************************************)
(* Actions of the network engine                                           *)
(***************************************************************************)
NetInit ==
    /\ ruleStorage = EmptyMap
    /\ storagePos = 0
    /\ rulesCount = 0
    /\ domainsLookupTable = EmptyMap
    /\ shortcutsLookupTable = EmptyMap
    /\ shortcutsHistogram = EmptyMap
    /\ otherRules = << >>
    /\ lastMatch = NoMatch
    /\ addRuleCalls = 0
    /\ lastAdd = NoAdd

\* Engine.loadRules / the constructor's scan loop, one iteration: the scanner yields
\* the next rule of the storage with its index and Engine.addRule adds it.
AddRule(name) ==
    /\ rulesCount < MaxRules
    /\ ruleStorage' = MapSet(ruleStorage, storagePos, name)
    /\ storagePos' = storagePos + Len(NetworkRule[name].text) + 1
    /\ NetworkEngineAddRule(RuleObject(name, storagePos), storagePos)
    /\ lastMatch' = NoMatch
    /\ addRuleCalls' = addRuleCalls + 1
    /\ lastAdd' = AddRecord(name, storagePos)

\* NetworkEngine.addRule(rule, storageIdx), called once more with a rule object and
\* the index it was given with before.
AddRuleAgain(storageIdx) ==
    /\ rulesCount < MaxRules
    /\ storageIdx \in DOMAIN ruleStorage
    /\ NetworkEngineAddRule(RuleObject(ruleStorage[storageIdx], storageIdx), storageIdx)
    /\ lastMatch' = NoMatch
    /\ addRuleCalls' = addRuleCalls + 1
    /\ lastAdd' = AddRecord(ruleStorage[storageIdx], storageIdx)
    /\ UNCHANGED <<ruleStorage, storagePos>>

\* A rule is removed from the storage: retrieveNetworkRule returns the absence
\* value for its index from now on, the engine's tables are not told.
StorageRemove(storageIdx) ==
    /\ storageIdx \in DOMAIN ruleStorage
    /\ ruleStorage' = MapDelete(ruleStorage, storageIdx)
    /\ lastMatch' = NoMatch
    /\ UNCHANGED <<storagePos, rulesCount, addRuleCalls, lastAdd, domainsLookupTable,
                   shortcutsLookupTable, shortcutsHistogram, otherRules>>

\* What a call leaves in lastMatch: repeated tells that the call before it was the
\* same operation on the same request with no addRule in between, and previous is
\* then what that call returned.
MatchRecord(op, q, result) ==
    LET repeated == lastMatch.op = op /\ lastMatch.request = q
    IN  [op |-> op, request |-> q, result |-> result, repeated |-> repeated,
         previous |-> IF repeated THEN lastMatch.result ELSE result]

\* A variant of MatchAll that moves the rules it found to the front of otherRules,
\* as a cache would: the frame and the determinism of matching fail for it.
MatchAllCaching(q) ==
    LET result == matchAll(Engine, Request[q])
    IN  /\ lastMatch' = MatchRecord("matchAll", q, result)
        /\ otherRules' = result \o otherRules
        /\ UNCHANGED <<ruleStorage, storagePos, rulesCount, addRuleCalls, lastAdd, domainsLookupTable,
                       shortcutsLookupTable, shortcutsHistogram>>

\* NetworkEngine.matchAll(request)
MatchAll(q) ==
    /\ lastMatch' = MatchRecord("matchAll", q, matchAll(Engine, RequestOf(q)))
    /\ UNCHANGED <<ruleStorage, storagePos, rulesCount, addRuleCalls, lastAdd, domainsLookupTable,
                   shortcutsLookupTable, shortcutsHistogram, otherRules>>

\* Engine.matchRequest(request)
MatchRequest(q) ==
    /\ lastMatch' = MatchRecord("matchRequest", q, matchRequest(Engine, Request[q]))
    /\ UNCHANGED <<ruleStorage, storagePos, rulesCount, addRuleCalls, lastAdd, domainsLookupTable,
                   shortcutsLookupTable, shortcutsHistogram, otherRules>>

(***************************************************************************)
(* Cosmetic rules.  CosmeticRule and DomainModifier are not part of the    *)
(* sources at hand; a rule is the record of section 3 and matches a        *)
(* hostname as section 4.F says.                                           *)
(***************************************************************************)
CosmeticRuleNames == {"cHost", "cTwo", "cWild", "cGeneric", "cAllow", "cAllowWild"}

CosmeticRule ==
    [n \in CosmeticRuleNames |->
        CASE n = "cHost" ->      \* x.io##.banner
               [content |-> <<".","b","a","n","n","e","r">>, permittedDomains |-> <<<<"x",".","i","o">>>>,
                restrictedDomains |-> << >>, whitelist |-> FALSE]
          [] n = "cTwo" ->       \* x.io,b.az.io##.top
               [content |-> <<".","t","o","p">>, permittedDomains |-> <<<<"x",".","i","o">>, <<"b",".","a","z",".","i","o">>>>,
                restrictedDomains |-> << >>, whitelist |-> FALSE]
          [] n = "cWild" ->      \* *.io,~az.io##.ad
               [content |-> <<".","a","d">>, permittedDomains |-> <<<<"*",".","i","o">>>>,
                restrictedDomains |-> <<<<"a","z",".","i","o">>>>, whitelist |-> FALSE]
          [] n = "cGeneric" ->   \* ##.ad
               [content |-> <<".","a","d">>, permittedDomains |-> << >>,
                restrictedDomains |-> << >>, whitelist |-> FALSE]
          [] n = "cAllow" ->     \* x.io#@#.banner
               [content |-> <<".","b","a","n","n","e","r">>, permittedDomains |-> <<<<"x",".","i","o">>>>,
                restrictedDomains |-> << >>, whitelist |-> TRUE]
          [] n = "cAllowWild" -> \* *.io#@#.ad
               [content |-> <<".","a","d">>, permittedDomains |-> <<<<"*",".","i","o">>>>,
                restrictedDomains |-> << >>, whitelist |-> TRUE]]

\* The hostnames the cosmetic table is asked about.
Hostnames == {<<"x",".","i","o">>, <<"a","z",".","i","o">>, <<"b",".","a","z",".","i","o">>}

\* DomainModifier.isWildcardDomain: the domain pattern contains *
isWildcardDomain(domain) == IsIn(domain, "*")

\* Label-wise glob: as many labels as the hostname, each equal to the hostname's or *
matchWildcardDomain(pattern, hostname) ==
    LET p == splitOn(pattern, ".")
        h == splitOn(hostname, ".")
    IN  /\ Len(p) = Len(h)
        /\ \A i \in 1..Len(p) : p[i] = <<"*">> \/ p[i] = h[i]

\* A domain pattern matches a hostname.
matchDomainPattern(pattern, hostname) ==
    IF isWildcardDomain(pattern) THEN matchWildcardDomain(pattern, hostname)
    ELSE isDomainOrSubdomainOf(hostname, pattern)

\* CosmeticRule.match(hostname): every permitted domain pattern matches the hostname
\* and no restricted domain pattern does.
cosmeticMatch(name, hostname) ==
    LET rule == CosmeticRule[name]
    IN  /\ \A i \in 1..Len(rule.permittedDomains) :
                matchDomainPattern(rule.permittedDomains[i], hostname)
        /\ \A i \in 1..Len(rule.restrictedDomains) :
                ~matchDomainPattern(rule.restrictedDomains[i], hostname)

\* CosmeticRule.isWhitelist
isWhitelist(name) == CosmeticRule[name].whitelist

\* CosmeticRule.isGeneric: the rule has no permitted domains
isGeneric(name) == CosmeticRule[name].permittedDomains = << >>

\* CosmeticRule.getContent
getContent(name) == CosmeticRule[name].content

(***************************************************************************)
(* CosmeticLookupTable                                                     *)
(***************************************************************************)
VARIABLES
    \* Map<string, CosmeticRule[]>, wildcard rules, generic rules, Map<content, CosmeticRule[]>
    byHostname, wildcardRules, genericRules, whitelist,
    \* how many addRule calls the table has seen, and the rules they were given
    cosmeticAdded, addedRules,
    \* the last findByHostname / isWhitelisted call since the last addRule
    lastLookup

cosVars == <<byHostname, wildcardRules, genericRules, whitelist, cosmeticAdded, addedRules,
             lastLookup>>

\* How many CosmeticLookupTable.addRule calls a behaviour of the model makes at most.
MaxCosmeticRules == 3

\* How long a byHostname list may get before the model stops looking it up.
MaxHostRules == 4

\* The table a state holds.
CosmeticTable ==
    [byHostname |-> byHostname, wildcardRules |-> wildcardRules,
     genericRules |-> genericRules, whitelist |-> whitelist]

\* The for-of loop of addRule over the permitted domains from position i on.
RECURSIVE addByHostname(_, _, _, _)
addByHostname(map, domains, i, name) ==
    IF i > Len(domains) THEN map
    ELSE LET rules == IF MapHas(map, domains[i]) THEN map[domains[i]] ELSE << >>
         IN  addByHostname(MapSet(map, domains[i], Append(rules, name)), domains, i + 1, name)

\* An addRule that files whitelist rules by their domains, like the other rules.
cosmeticAddRuleIgnoringWhitelist(t, name) ==
    IF isGeneric(name)
    THEN [t EXCEPT !.genericRules = Append(t.genericRules, name)]
    ELSE LET domains == CosmeticRule[name].permittedDomains
             hasWildcardDomain == \E i \in 1..Len(domains) : isWildcardDomain(domains[i])
         IN  IF hasWildcardDomain
             THEN [t EXCEPT !.wildcardRules = Append(t.wildcardRules, name)]
             ELSE [t EXCEPT !.byHostname = addByHostname(t.byHostname, domains, 1, name)]

\* CosmeticLookupTable.addRule(rule): the table afterwards
cosmeticAddRule(t, name) ==
    IF isWhitelist(name)
    THEN LET ruleContent == getContent(name)
             existingRules == IF MapHas(t.whitelist, ruleContent) THEN t.whitelist[ruleContent]
                              ELSE << >>
         IN  [t EXCEPT !.whitelist = MapSet(t.whitelist, ruleContent, Append(existingRules, name))]
    ELSE IF isGeneric(name)
    THEN [t EXCEPT !.genericRules = Append(t.genericRules, name)]
    ELSE LET domains == CosmeticRule[name].permittedDomains
             hasWildcardDomain == \E i \in 1..Len(domains) : isWildcardDomain(domains[i])
         IN  IF hasWildcardDomain
             THEN [t EXCEPT !.wildcardRules = Append(t.wildcardRules, name)]
             ELSE [t EXCEPT !.byHostname = addByHostname(t.byHostname, domains, 1, name)]

\* CosmeticLookupTable.findByHostname(hostname): [result, table].  The list the
\* wildcard matches are pushed to is the one byHostname holds when the hostname has
\* an entry (Map.get returns the stored array), a fresh one otherwise.
findByHostname(t, hostname) ==
    LET stored == MapHas(t.byHostname, hostname)
        rules == (IF stored THEN t.byHostname[hostname] ELSE << >>)
                 \o SelectSeq(t.wildcardRules, LAMBDA r : cosmeticMatch(r, hostname))
    IN  [result |-> SelectSeq(rules, LAMBDA r : ~isWhitelist(r)),
         table |-> IF stored THEN [t EXCEPT !.byHostname = MapSet(t.byHostname, hostname, rules)]
                   ELSE t]

\* isWhitelisted looking at the content only: true when the table has a whitelist
\* rule of the rule's content, on whatever hostname.
isWhitelistedEverywhere(t, hostname, name) ==
    MapHas(t.whitelist, getContent(name))

\* CosmeticLookupTable.isWhitelisted(hostname, rule)
isWhitelisted(t, hostname, name) ==
    LET content == getContent(name)
    IN  IF ~MapHas(t.whitelist, content) THEN FALSE
        ELSE \E i \in 1..Len(t.whitelist[content]) :
                cosmeticMatch(t.whitelist[content][i], hostname)

NoLookup == [op |-> "none"]

CosInit ==
    /\ byHostname = EmptyMap
    /\ wildcardRules = << >>
    /\ genericRules = << >>
    /\ whitelist = EmptyMap
    /\ cosmeticAdded = 0
    /\ addedRules = << >>
    /\ lastLookup = NoLookup

SetCosmeticTable(t) ==
    /\ byHostname' = t.byHostname
    /\ wildcardRules' = t.wildcardRules
    /\ genericRules' = t.genericRules
    /\ whitelist' = t.whitelist

\* CosmeticLookupTable.addRule(rule)
CosmeticAddRule(name) ==
    /\ cosmeticAdded < MaxCosmeticRules
    /\ SetCosmeticTable(cosmeticAddRule(CosmeticTable, name))
    /\ cosmeticAdded' = cosmeticAdded + 1
    /\ addedRules' = Append(addedRules, name)
    /\ lastLookup' = NoLookup

\* CosmeticLookupTable.findByHostname(hostname).  In lastLookup, repeated tells that
\* the call before it was findByHostname of the same hostname with no addRule in
\* between, and previous is then what that call returned.
FindByHostname(hostname) ==
    LET r == findByHostname(CosmeticTable, hostname)
        repeated == lastLookup.op = "findByHostname" /\ lastLookup.hostname = hostname
    IN  /\ Len(r.result) <= MaxHostRules
        /\ SetCosmeticTable(r.table)
        /\ lastLookup' = [op |-> "findByHostname", hostname |-> hostname, result |-> r.result,
                          repeated |-> repeated,
                          previous |-> IF repeated THEN lastLookup.result ELSE r.result]
        /\ UNCHANGED <<cosmeticAdded, addedRules>>

\* CosmeticLookupTable.isWhitelisted(hostname, rule)
IsWhitelisted(hostname, name) ==
    /\ lastLookup' = [op |-> "isWhitelisted", hostname |-> hostname, rule |-> name,
                      result |-> isWhitelisted(CosmeticTable, hostname, name)]
    /\ UNCHANGED <<byHostname, wildcardRules, genericRules, whitelist, cosmeticAdded, addedRules>>

(***************************************************************************)
(* Cookie filtering (CookieFiltering and CookieUtils of src/src/utils.ts). *)
(* The $cookie rules are network rules with a CookieModifier; NetworkRule  *)
(* and CookieModifier are not part of the sources at hand: a rule is here  *)
(* the record {whitelist, cookieName, sameSite, maxAge} of section 4.B.    *)
(***************************************************************************)
\* The absence value where a number is expected.
NoNumber == 0 - 1

CookieRuleNames == {"kBlock", "kAllow", "kAll", "kAge", "kLax", "kStrict"}

CookieRule ==
    [n \in CookieRuleNames |->
        CASE n = "kBlock" ->   \* $cookie=t
               [whitelist |-> FALSE, cookieName |-> <<"t">>, sameSite |-> Null,
                maxAge |-> NoNumber]
          [] n = "kAllow" ->   \* @@$cookie=t
               [whitelist |-> TRUE, cookieName |-> <<"t">>, sameSite |-> Null,
                maxAge |-> NoNumber]
          [] n = "kAll" ->     \* $cookie
               [whitelist |-> FALSE, cookieName |-> << >>, sameSite |-> Null,
                maxAge |-> NoNumber]
          [] n = "kAge" ->     \* $cookie=t;maxAge=60
               [whitelist |-> FALSE, cookieName |-> <<"t">>, sameSite |-> Null,
                maxAge |-> 60]
          [] n = "kLax" ->     \* $cookie=t;sameSite=lax
               [whitelist |-> FALSE, cookieName |-> <<"t">>, sameSite |-> "lax",
                maxAge |-> NoNumber]
          [] n = "kStrict" ->  \* $cookie;sameSite=strict;maxAge=30
               [whitelist |-> FALSE, cookieName |-> << >>, sameSite |-> "strict",
                maxAge |-> 30]]

\* NetworkRule.isWhitelist of a $cookie rule
cookieRuleIsWhitelist(r) == CookieRule[r].whitelist

\* CookieModifier.getSameSite
getSameSite(r) == CookieRule[r].sameSite

\* CookieModifier.getMaxAge
getMaxAge(r) == CookieRule[r].maxAge

\* CookieModifier.matches(cookieName): an empty name pattern matches every cookie
cookieModifierMatches(r, cookieName) ==
    CookieRule[r].cookieName = << >> \/ CookieRule[r].cookieName = cookieName

\* How many rules the cookieRules argument of processRequestHeaders holds at most.
MaxCookieRules == 2

\* The cookieRules arguments: every list of at most MaxCookieRules rules.
CookieRuleLists == UNION {[1..n -> CookieRuleNames] : n \in 0..MaxCookieRules}

\* The requests of the cookie phases: a request id and a URL.
CookieRequests ==
    {[requestId |-> 1, url |-> <<"h","t","t","p",":","/","/","x",".","i","o","/">>],
     [requestId |-> 2, url |-> <<"h","t","t","p",":","/","/","a","z",".","i","o","/">>]}

Header(name, value) == [name |-> name, value |-> value]

\* The requestHeaders arguments.
HeaderLists ==
    {<<Header(<<"C","o","o","k","i","e">>, <<"t","=","1",";"," ","J","=","x">>)>>,
     <<Header(<<"H","o","s","t">>, <<"x",".","i","o">>), Header(<<"c","o","o","k","i","e">>, <<"J","=","x",";","t","=","1",";"," "," ","u","=","2">>)>>,
     <<Header(<<"C","O","O","K","I","E">>, <<"f","l","a","g",";"," ","t"," ","="," ","1",";"," ","t","=","2">>), Header(<<"C","o","o","k","i","e">>, <<"t","=","3">>)>>,
     <<Header(<<"H","o","s","t">>, <<"x",".","i","o">>)>>,
     <<Header(<<"C","o","o","k","i","e">>, <<"f","l","a","g">>)>>}

(***************************************************************************)
(* CookieUtils.parseCookie                                                 *)
(***************************************************************************)
\* String.prototype.trim: the white space and line terminators of the model's strings
WhiteSpace == {" ", "\t", "\n", "\r"}

RECURSIVE trimStart(_)
trimStart(s) == IF s # << >> /\ Head(s) \in WhiteSpace THEN trimStart(Tail(s)) ELSE s

RECURSIVE trimEnd(_)
trimEnd(s) ==
    IF s # << >> /\ s[Len(s)] \in WhiteSpace THEN trimEnd(SubSeq(s, 1, Len(s) - 1)) ELSE s

trim(s) == trimEnd(trimStart(s))

\* cookieValue.split(/; */): cut at every ; and the spaces that follow it; a tab or
\* a line break after the ; stays in the pair
RECURSIVE splitCookiePairs(_)
splitCookiePairs(s) ==
    IF ~IsIn(s, ";") THEN <<s>>
    ELSE LET i == CHOOSE k \in 1..Len(s) : s[k] = ";" /\ \A m \in 1..(k - 1) : s[m] # ";"
             rest == SubSeq(s, i + 1, Len(s))
             spaces == CHOOSE n \in 0..Len(rest) :
                          /\ \A m \in 1..n : rest[m] = " "
                          /\ n < Len(rest) => rest[n + 1] # " "
         IN  <<SubSeq(s, 1, i - 1)>> \o splitCookiePairs(SubSeq(rest, spaces + 1, Len(rest)))

\* new Cookie(key, value)
Cookie(name, value) == [name |-> name, value |-> value]

\* The for loop of parseCookie over the pairs from position i on.
RECURSIVE parsePairsFrom(_, _)
parsePairsFrom(pairs, i) ==
    IF i > Len(pairs) THEN << >>
    ELSE LET pair == pairs[i]
         IN  IF ~IsIn(pair, "=") THEN parsePairsFrom(pairs, i + 1)
             ELSE LET eqIdx == CHOOSE k \in 1..Len(pair) :
                                  pair[k] = "=" /\ \A m \in 1..(k - 1) : pair[m] # "="
                      key == trim(SubSeq(pair, 1, eqIdx - 1))
                      value == trim(SubSeq(pair, eqIdx + 1, Len(pair)))
                  IN  <<Cookie(key, value)>> \o parsePairsFrom(pairs, i + 1)

parseCookie(cookieValue) == parsePairsFrom(splitCookiePairs(cookieValue), 1)

\* cookies.map((c) => `${c.name}=${c.value}`).join('; ')
RECURSIVE joinCookies(_)
joinCookies(cookies) ==
    IF cookies = << >> THEN << >>
    ELSE Head(cookies).name \o <<"=">> \o Head(cookies).value
         \o (IF Len(cookies) > 1 THEN <<";"," ">> \o joinCookies(Tail(cookies)) ELSE << >>)

(***************************************************************************)
(* CookieFiltering: the request phase                                      *)
(***************************************************************************)
\* CookieFiltering.isModifyingRule
isModifyingRule(r) ==
    getSameSite(r) # Null \/ (getMaxAge(r) # NoNumber /\ getMaxAge(r) > 0)

\* The absence value where a rule name is expected.
NoRule == Null

\* A variant of lookupNotModifyingRule that returns the last matching rule that does
\* not modify instead of the first.
lookupLastNotModifyingRule(cookieName, rules) ==
    IF \E i \in 1..Len(rules) :
            cookieModifierMatches(rules[i], cookieName) /\ ~isModifyingRule(rules[i])
    THEN rules[CHOOSE i \in 1..Len(rules) :
                  /\ cookieModifierMatches(rules[i], cookieName) /\ ~isModifyingRule(rules[i])
                  /\ \A j \in (i + 1)..Len(rules) :
                        ~(cookieModifierMatches(rules[j], cookieName) /\ ~isModifyingRule(rules[j]))]
    ELSE NoRule

\* CookieFiltering.lookupNotModifyingRule: the first matching rule that does not modify
lookupNotModifyingRule(cookieName, rules) ==
    IF \E i \in 1..Len(rules) :
            cookieModifierMatches(rules[i], cookieName) /\ ~isModifyingRule(rules[i])
    THEN rules[CHOOSE i \in 1..Len(rules) :
                  /\ cookieModifierMatches(rules[i], cookieName) /\ ~isModifyingRule(rules[i])
                  /\ \A j \in 1..(i - 1) :
                        ~(cookieModifierMatches(rules[j], cookieName) /\ ~isModifyingRule(rules[j]))]
    ELSE NoRule

\* The for loop of lookupModifyingRules from position i on, with the result so far.
RECURSIVE lookupModifyingFrom(_, _, _, _)
lookupModifyingFrom(cookieName, rules, i, result) ==
    IF i > Len(rules) THEN result
    ELSE IF ~cookieModifierMatches(rules[i], cookieName)
         THEN lookupModifyingFrom(cookieName, rules, i + 1, result)
    ELSE IF ~isModifyingRule(rules[i]) THEN << >>
    ELSE lookupModifyingFrom(cookieName, rules, i + 1, Append(result, rules[i]))

\* A variant of lookupModifyingRules that stops at the first matching modifying rule.
lookupFirstModifyingRule(cookieName, rules) ==
    LET all == lookupModifyingFrom(cookieName, rules, 1, << >>)
    IN  IF all = << >> THEN << >> ELSE <<Head(all)>>

\* A variant of lookupModifyingRules that returns the matching modifying rules also
\* when a matching rule does not modify.
lookupModifyingRulesKeeping(cookieName, rules) ==
    SelectSeq(rules, LAMBDA r : cookieModifierMatches(r, cookieName) /\ isModifyingRule(r))

\* CookieFiltering.lookupModifyingRules
lookupModifyingRules(cookieName, rules) == lookupModifyingFrom(cookieName, rules, 1, << >>)

\* CookieFiltering.findHeaderByName: the position of the first header with that
\* name, compared case-insensitively; 0 when there is none
findHeaderByName(headers, headerName) ==
    IF \E i \in 1..Len(headers) : toLowerCase(headers[i].name) = toLowerCase(headerName)
    THEN CHOOSE i \in 1..Len(headers) :
            /\ toLowerCase(headers[i].name) = toLowerCase(headerName)
            /\ \A j \in 1..(i - 1) : toLowerCase(headers[j].name) # toLowerCase(headerName)
    ELSE 0

\* One entry of cookiesMap
ScheduleEntry(remove, name, url, rules) ==
    [remove |-> remove, cookie |-> [name |-> name, url |-> url], rules |-> rules]

\* A filter that keeps one schedule for all requests, under the first request id.
scheduleProcessingCookieShared(map, requestId, name, url, rules, remove) ==
    LET values == IF MapHas(map, 1) THEN map[1] ELSE << >>
    IN  MapSet(map, 1, Append(values, ScheduleEntry(remove, name, url, rules)))

\* CookieFiltering.scheduleProcessingCookie: the map afterwards
scheduleProcessingCookie(map, requestId, name, url, rules, remove) ==
    LET values == IF MapHas(map, requestId) THEN map[requestId] ELSE << >>
    IN  MapSet(map, requestId, Append(values, ScheduleEntry(remove, name, url, rules)))

\* Array.prototype.splice(i, 1), i counted from 1
spliceOne(seq, i) == SubSeq(seq, 1, i - 1) \o SubSeq(seq, i + 1, Len(seq))

\* The while loop of processRequestHeaders with iCookies cookies still to look at:
\* [cookies, map, modified] when it ends.
RECURSIVE processCookiesFrom(_, _, _, _, _, _, _)
processCookiesFrom(cookies, iCookies, cookieRules, requestId, url, map, modified) ==
    IF iCookies <= 0 THEN [cookies |-> cookies, map |-> map, modified |-> modified]
    ELSE LET cookieName == cookies[iCookies].name
             bRule == lookupNotModifyingRule(cookieName, cookieRules)
             blocked == bRule # NoRule /\ ~cookieRuleIsWhitelist(bRule)
             map1 == IF bRule # NoRule
                     THEN scheduleProcessingCookie(map, requestId, cookieName, url,
                                                   <<bRule>>, TRUE)
                     ELSE map
             mRules == lookupModifyingRules(cookieName, cookieRules)
             map2 == IF mRules # << >>
                     THEN scheduleProcessingCookie(map1, requestId, cookieName, url,
                                                   mRules, FALSE)
                     ELSE map1
         IN  processCookiesFrom(IF blocked THEN spliceOne(cookies, iCookies) ELSE cookies,
                                iCookies - 1, cookieRules, requestId, url, map2,
                                modified \/ blocked)

\* A processRequestHeaders that returns true whenever it scheduled something.
processRequestHeadersReportingAll(map, request, requestHeaders, cookieRules) ==
    LET unchanged == [ret |-> FALSE, headers |-> requestHeaders, map |-> map]
        h == findHeaderByName(requestHeaders, <<"C","o","o","k","i","e">>)
    IN  IF Len(cookieRules) = 0 THEN unchanged
        ELSE IF h = 0 THEN unchanged
        ELSE LET cookies == parseCookie(requestHeaders[h].value)
             IN  IF Len(cookies) = 0 THEN unchanged
                 ELSE LET p == processCookiesFrom(cookies, Len(cookies), cookieRules,
                                                  request.requestId, request.url, map, FALSE)
                      IN  [ret |-> p.modified \/ p.map # map,
                           headers |-> IF p.modified
                                       THEN [requestHeaders EXCEPT
                                                ![h].value = joinCookies(p.cookies)]
                                       ELSE requestHeaders,
                           map |-> p.map]

\* CookieFiltering.processRequestHeaders: [ret, headers, map]
processRequestHeaders(map, request, requestHeaders, cookieRules) ==
    LET unchanged == [ret |-> FALSE, headers |-> requestHeaders, map |-> map]
        h == findHeaderByName(requestHeaders, <<"C","o","o","k","i","e">>)
    IN  IF Len(cookieRules) = 0 THEN unchanged
        ELSE IF h = 0 THEN unchanged
        ELSE LET cookies == parseCookie(requestHeaders[h].value)
             IN  IF Len(cookies) = 0 THEN unchanged
                 ELSE LET p == processCookiesFrom(cookies, Len(cookies), cookieRules,
                                                  request.requestId, request.url, map, FALSE)
                      IN  [ret |-> p.modified,
                           headers |-> IF p.modified
                                       THEN [requestHeaders EXCEPT
                                                ![h].value = joinCookies(p.cookies)]
                                       ELSE requestHeaders,
                           map |-> p.map]

(***************************************************************************)
(* CookieFiltering: the response phase.  Times are milliseconds since the  *)
(* epoch; the clock readings are whole seconds, for which Date.now() /     *)
(* 1000 and new Date(sec * 1000) are exact.                                *)
(***************************************************************************)
\* A stored browser cookie: maxAge in seconds, expires in milliseconds (the time
\* of its Date), each NoNumber when the cookie has none.
BrowserCookie(name, sameSite, maxAge, expires) ==
    [name |-> name, sameSite |-> sameSite, maxAge |-> maxAge, expires |-> expires]

\* The readings of Date.now() the model draws from.
ClockReadings == {1000000, 1030000}

\* How many readings of the clock a call is given one by one; the reads after
\* them get the last reading again.
MaxClockReads == 8

\* The clocks a call runs against: the readings Date.now() returns, read by read.
\* Time passes between two reads or stands still, and after the last reading that
\* differs it stands still.
Clocks ==
    {clock \in UNION {[1..n -> ClockReadings] : n \in 1..MaxClockReads} :
        /\ \A k \in 1..(Len(clock) - 1) : clock[k] <= clock[k + 1]
        /\ Len(clock) > 1 => clock[Len(clock) - 1] < clock[Len(clock)]}

\* CookieFiltering.updateSetCookieMaxAge: [modified, cookie]
updateSetCookieMaxAge(setCookie, maxAge, now) ==
    LET hasExpiry == (setCookie.maxAge # NoNumber /\ setCookie.maxAge # 0)
                     \/ setCookie.expires # NoNumber
        cookieExpiresTime == IF setCookie.maxAge # NoNumber /\ setCookie.maxAge # 0
                             THEN now + 1000 * setCookie.maxAge
                             ELSE setCookie.expires
        newCookieExpiresTime == now + 1000 * maxAge
    IN  IF ~hasExpiry \/ cookieExpiresTime > newCookieExpiresTime
        THEN [modified |-> TRUE,
              cookie |-> IF setCookie.expires # NoNumber
                         THEN [setCookie EXCEPT !.expires = newCookieExpiresTime]
                         ELSE [setCookie EXCEPT !.maxAge = maxAge]]
        ELSE [modified |-> FALSE, cookie |-> setCookie]

\* The for loop of applyRuleToBrowserCookie from rule i on, against the clock whose
\* next readings are clock: [cookie, appliedRules, clock].  Every call of
\* updateSetCookieMaxAge reads Date.now() once.
RECURSIVE applyRulesFrom(_, _, _, _, _)
applyRulesFrom(cookie, rules, i, appliedRules, clock) ==
    IF i > Len(rules) THEN [cookie |-> cookie, appliedRules |-> appliedRules, clock |-> clock]
    ELSE LET rule == rules[i]
             sameSite == getSameSite(rule)
             setSameSite == sameSite # Null /\ cookie.sameSite # sameSite
             cookie1 == IF setSameSite THEN [cookie EXCEPT !.sameSite = sameSite] ELSE cookie
             maxAge == getMaxAge(rule)
             reads == maxAge # NoNumber /\ maxAge # 0
             u == IF reads
                  THEN updateSetCookieMaxAge(cookie1, maxAge, Head(clock))
                  ELSE [modified |-> FALSE, cookie |-> cookie1]
             modified == setSameSite \/ u.modified
         IN  CHOOSE result \in
                 {applyRulesFrom(cookie2, rules, i + 1, applied, later) :
                     cookie2 \in {u.cookie},
                     applied \in {IF modified THEN Append(appliedRules, rule)
                                  ELSE appliedRules},
                     later \in {IF reads /\ Len(clock) > 1 THEN Tail(clock) ELSE clock}} : TRUE

\* CookieFiltering.applyRuleToBrowserCookie
applyRuleToBrowserCookie(cookie, rules, clock) ==
    applyRulesFrom(cookie, rules, 1, << >>, clock)

\* The cookies the browser holds.  CookieApi is implemented by the embedding
\* application; the model answers getCookies from this table and records the
\* removeCookie and modifyCookie calls made.  For the cookie t of http://x.io/:
\* maxAge only, expires only, both, neither, both and already short, both with the
\* expiry a rule of maxAge 60 asks for at the first clock reading, and maxAge 0.
BrowserCookies ==
    (<<<<"t">>, <<"h","t","t","p",":","/","/","x",".","i","o","/">>>> :>
        <<BrowserCookie(<<"t">>, "strict", 100, NoNumber),
          BrowserCookie(<<"t">>, Null, NoNumber, 1100000),
          BrowserCookie(<<"t">>, "lax", 100, 1100000),
          BrowserCookie(<<"t">>, "lax", NoNumber, NoNumber),
          BrowserCookie(<<"t">>, "lax", 20, 1020000),
          BrowserCookie(<<"t">>, "lax", 100, 1060000),
          BrowserCookie(<<"t">>, "strict", 0, 1060000)>>)
    @@ (<<<<"J">>, <<"h","t","t","p",":","/","/","x",".","i","o","/">>>> :> <<BrowserCookie(<<"J">>, Null, NoNumber, NoNumber)>>)
    @@ (<<<<"t">>, <<"h","t","t","p",":","/","/","a","z",".","i","o","/">>>> :> <<BrowserCookie(<<"t">>, "strict", NoNumber, 1060000)>>)

\* CookieApi.getCookies(name, url): the cookies the browser stores under that name and URL
getCookies(name, url) ==
    IF MapHas(BrowserCookies, <<name, url>>) THEN BrowserCookies[<<name, url>>] ELSE << >>

\* What modifyCookies has done so far: the CookieApi calls made, for every stored
\* cookie the rules were applied to, the cookie before and after, the scheduled
\* entries the loop has handled, and the readings of the clock that are to come.
ResponseState(calls, applications, handled, clock) ==
    [calls |-> calls, applications |-> applications, handled |-> handled, clock |-> clock]

\* The for loop of modifyCookie over the cookies getCookies returned, from cookie i on.
RECURSIVE modifyCookieFrom(_, _, _, _, _)
modifyCookieFrom(rs, cookies, i, url, rules) ==
    IF i > Len(cookies) THEN rs
    ELSE LET a == applyRuleToBrowserCookie(cookies[i], rules, rs.clock)
             called == a.appliedRules # << >>
             applied == [before |-> cookies[i], after |-> a.cookie, rules |-> rules,
                         appliedRules |-> a.appliedRules, clock |-> rs.clock,
                         now |-> Head(rs.clock), url |-> url, modifyCalled |-> called]
         IN  CHOOSE result \in
                 {modifyCookieFrom(rs1, cookies, i + 1, url, rules) :
                     rs1 \in {ResponseState(
                                 IF called
                                 THEN Append(rs.calls, [op |-> "modifyCookie",
                                                        cookie |-> a.cookie, url |-> url])
                                 ELSE rs.calls,
                                 Append(rs.applications, applied),
                                 rs.handled,
                                 a.clock)}} : TRUE

\* CookieFiltering.modifyCookie(name, url, rules)
modifyCookie(rs, name, url, rules) ==
    modifyCookieFrom(rs, getCookies(name, url), 1, url, rules)

\* The for-of loop of modifyCookies over the scheduled values from position i on.
RECURSIVE modifyValuesFrom(_, _, _)
modifyValuesFrom(rs, values, i) ==
    IF i > Len(values) THEN rs
    ELSE LET value == values[i]
             rs1 == [rs EXCEPT !.handled = Append(rs.handled, value)]
         IN  modifyValuesFrom(
                 IF value.remove
                 THEN [rs1 EXCEPT !.calls =
                          Append(rs.calls, [op |-> "removeCookie", name |-> value.cookie.name,
                                            url |-> value.cookie.url])]
                 ELSE modifyCookie(rs1, value.cookie.name, value.cookie.url, value.rules),
                 values, i + 1)

\* A variant of modifyCookies that does not delete the entry of the request id
\* after the loop: the schedule is not drained for it.
modifyCookiesKeeping(map, requestId, clock) ==
    IF ~MapHas(map, requestId) \/ map[requestId] = << >>
    THEN [map |-> map, calls |-> << >>, applications |-> << >>, handled |-> << >>]
    ELSE LET rs == modifyValuesFrom(ResponseState(<< >>, << >>, << >>, clock), map[requestId], 1)
         IN  [map |-> map, calls |-> rs.calls,
              applications |-> rs.applications, handled |-> rs.handled]

\* A variant of modifyCookies that leaves an empty list for the request id instead of
\* deleting the entry, whether there was one or not.
modifyCookiesEmptying(map, requestId, clock) ==
    IF ~MapHas(map, requestId) \/ map[requestId] = << >>
    THEN [map |-> MapSet(map, requestId, << >>), calls |-> << >>,
          applications |-> << >>, handled |-> << >>]
    ELSE LET rs == modifyValuesFrom(ResponseState(<< >>, << >>, << >>, clock), map[requestId], 1)
         IN  [map |-> MapSet(map, requestId, << >>), calls |-> rs.calls,
              applications |-> rs.applications, handled |-> rs.handled]

\* CookieFiltering.modifyCookies(requestId): [map, calls, applications, handled]
modifyCookies(map, requestId, clock) ==
    IF ~MapHas(map, requestId) \/ map[requestId] = << >>
    THEN [map |-> map, calls |-> << >>, applications |-> << >>, handled |-> << >>]
    ELSE LET rs == modifyValuesFrom(ResponseState(<< >>, << >>, << >>, clock), map[requestId], 1)
         IN  [map |-> MapDelete(map, requestId), calls |-> rs.calls,
              applications |-> rs.applications, handled |-> rs.handled]

(***************************************************************************)
(* State and actions of the cookie filter                                  *)
(***************************************************************************)
VARIABLES
    \* CookieFiltering.cookiesMap: request id -> scheduled entries
    cookiesMap,
    \* the last processRequestHeaders call: its arguments and what it did
    lastRequestPhase,
    \* the last modifyCookies call: its arguments and what it did
    lastResponsePhase

cookieVars == <<cookiesMap, lastRequestPhase, lastResponsePhase>>

\* How many entries cookiesMap may hold, over all request ids, before the model
\* stops scheduling more.
MaxScheduled == 3

NoPhase == [op |-> "none"]

\* The number of entries cookiesMap holds.
RECURSIVE scheduledCount(_)
scheduledCount(map) ==
    IF DOMAIN map = {} THEN 0
    ELSE LET k == CHOOSE x \in DOMAIN map : TRUE
         IN  Len(map[k]) + scheduledCount(MapDelete(map, k))

CookieInit ==
    /\ cookiesMap = EmptyMap
    /\ lastRequestPhase = NoPhase
    /\ lastResponsePhase = NoPhase

\* CookieFiltering.processRequestHeaders(request, requestHeaders, cookieRules)
ProcessRequestHeaders(request, requestHeaders, cookieRules) ==
    LET r == processRequestHeaders(cookiesMap, request, requestHeaders, cookieRules)
    IN  /\ scheduledCount(r.map) <= MaxScheduled
        /\ cookiesMap' = r.map
        /\ lastRequestPhase' =
              [op |-> "processRequestHeaders", request |-> request,
               requestHeaders |-> requestHeaders, cookieRules |-> cookieRules,
               mapBefore |-> cookiesMap, headers |-> r.headers, ret |-> r.ret]
        /\ lastResponsePhase' = NoPhase

\* CookieFiltering.modifyCookies(requestId), against the clock
ModifyCookies(requestId, clock) ==
    LET r == modifyCookies(cookiesMap, requestId, clock)
    IN  /\ cookiesMap' = r.map
        /\ lastResponsePhase' =
              [op |-> "modifyCookies", requestId |-> requestId, clock |-> clock,
               mapBefore |-> cookiesMap,
               calls |-> r.calls, applications |-> r.applications, handled |-> r.handled]
        /\ UNCHANGED lastRequestPhase


(***************************************************************************)
(* Line readers and the rule scanner                                       *)
(* (src/src/filterlist/scanner/rule-scanner.ts, src/src/filterlist/        *)
(* rule-scanner.ts)                                                        *)
(***************************************************************************)
\* The characters of the model's lists that take two bytes in UTF-8.
TwoByteChars == {"é"}

\* Buffer.from(line).length: the length of the UTF-8 encoding of a string
RECURSIVE byteLength(_)
byteLength(s) ==
    IF s = << >> THEN 0
    ELSE (IF Head(s) \in TwoByteChars THEN 2 ELSE 1) + byteLength(Tail(s))

\* What readLine returns: a line, or the end value (null).
LineRead(end, line) == [end |-> end, line |-> line]

EndOfLines == LineRead(TRUE, << >>)

\* A line reader over a text of which pos characters have been returned.
LineReader(text, pos) == [text |-> text, pos |-> pos]

\* The position after the line that starts after position pos: after its newline,
\* or the end of the text.
RECURSIVE lineEnd(_, _)
lineEnd(text, pos) ==
    IF pos >= Len(text) THEN Len(text)
    ELSE IF text[pos + 1] = "\n" THEN pos + 1
    ELSE lineEnd(text, pos + 1)

\* ILineReader.readLine of the readers the scanner is given: the next physical line
\* with its newline, or the end value; [result, reader]
readLine(reader) ==
    IF reader.pos >= Len(reader.text)
    THEN [result |-> EndOfLines, reader |-> reader]
    ELSE LET e == lineEnd(reader.text, reader.pos)
         IN  [result |-> LineRead(FALSE, SubSeq(reader.text, reader.pos + 1, e)),
              reader |-> LineReader(reader.text, e)]

\* StringLineReader.readLine of src/src/filterlist/rule-scanner.ts: return null
StringLineReaderReadLine(text) == EndOfLines

\* FileLineReader.readLine of src/src/filterlist/rule-scanner.ts: return null
FileLineReaderReadLine(text) == EndOfLines

\* A rule as the builder makes it, and the absence value.
IRule(kind, text, listId) == [kind |-> kind, text |-> text, listId |-> listId]

NullIRule == IRule("null", << >>, 0 - 1)

\* The error the builder fails with for a line that does not parse.
RuleSyntaxError(line, reason) == [kind |-> "error", line |-> line, reason |-> reason]

\* No error: the call returned.
NoError == [kind |-> "none"]

\* The markers of cosmetic rules, longest first where one starts like another.
CosmeticMarkers ==
    <<<<"#","@","?","#">>, <<"#","@","$","#">>, <<"#","@","%","#">>, <<"#","@","#">>, <<"#","?","#">>, <<"#","$","#">>, <<"#","%","#">>, <<"#","#">>, <<"$","@","$">>, <<"$","$">>>>

\* Whether a marker starts at position i (0-based) of the line.
markerAt(line, i) ==
    \E k \in 1..Len(CosmeticMarkers) :
        startsWith(SubSeq(line, i + 1, Len(line)), CosmeticMarkers[k])

\* The content of a cosmetic line: what follows its first marker.
cosmeticContent(line) ==
    LET i == CHOOSE j \in 0..(Len(line) - 1) :
                 markerAt(line, j) /\ \A m \in 0..(j - 1) : ~markerAt(line, m)
        rest == SubSeq(line, i + 1, Len(line))
        k == CHOOSE n \in 1..Len(CosmeticMarkers) :
                 /\ startsWith(rest, CosmeticMarkers[n])
                 /\ \A m \in 1..(n - 1) : ~startsWith(rest, CosmeticMarkers[m])
    IN  SubSeq(rest, Len(CosmeticMarkers[k]) + 1, Len(rest))

\* RuleBuilder.createRule(line, listId): no rule for an empty line or a comment (! or
\* # and a space at the start); a cosmetic rule for a line with a marker, else a
\* network rule.  For a line that does not parse (here: a cosmetic rule without
\* content) the builder fails: the value is the RuleSyntaxError it throws.
createRule(line, listId) ==
    IF line = << >> \/ startsWith(line, <<"!">>) \/ startsWith(line, <<"#"," ">>) THEN NullIRule
    ELSE IF \E i \in 0..(Len(line) - 1) : markerAt(line, i)
         THEN IF cosmeticContent(line) = << >> THEN RuleSyntaxError(line, "empty content")
              ELSE IRule("cosmetic", line, listId)
         ELSE IRule("network", line, listId)

\* IRule.isCosmetic
isCosmetic(rule) == rule.kind = "cosmetic"

\* A rule with the index of its line, and the absence value of getRule.
IndexedRule(rule, index) == [rule |-> rule, index |-> index]

NoIndexedRule == IndexedRule(NullIRule, 0 - 1)

\* new RuleScanner(reader, listId, ignoreCosmetic)
RuleScanner(reader, listId, ignoreCosmetic) ==
    [reader |-> reader, listId |-> listId, ignoreCosmetic |-> ignoreCosmetic,
     currentRule |-> NullIRule, currentRuleIndex |-> 0, currentPos |-> 0]

\* A scanner that counts the bytes of the trimmed line.
readNextLineTrimmed(sc) ==
    LET r == readLine(sc.reader)
    IN  IF ~r.result.end /\ r.result.line # << >>
        THEN [result |-> LineRead(FALSE, trim(r.result.line)),
              scanner |-> [sc EXCEPT !.reader = r.reader,
                                     !.currentPos = @ + byteLength(trim(r.result.line))]]
        ELSE [result |-> r.result, scanner |-> [sc EXCEPT !.reader = r.reader]]

\* RuleScanner.readNextLine: [result, scanner].  A line that is not empty is counted
\* with its bytes and returned trimmed; null and '' are returned as they are.
readNextLine(sc) ==
    LET r == readLine(sc.reader)
    IN  IF ~r.result.end /\ r.result.line # << >>
        THEN [result |-> LineRead(FALSE, trim(r.result.line)),
              scanner |-> [sc EXCEPT !.reader = r.reader,
                                     !.currentPos = @ + byteLength(r.result.line)]]
        ELSE [result |-> r.result, scanner |-> [sc EXCEPT !.reader = r.reader]]

\* A scanner that ignores no rule.
isIgnoredNever(sc, rule) == FALSE

\* RuleScanner.isIgnored
isIgnored(sc, rule) == IF ~sc.ignoreCosmetic THEN FALSE ELSE isCosmetic(rule)

\* A scanner that forgets its current rule when it reaches the end of the input.
RECURSIVE scanForgetting(_)
scanForgetting(sc) ==
    LET lineIndex == sc.currentPos
        n == readNextLine(sc)
    IN  IF n.result.end
        THEN [ret |-> FALSE, error |-> NoError,
              scanner |-> [n.scanner EXCEPT !.currentRule = NullIRule,
                                            !.currentRuleIndex = 0]]
        ELSE IF n.result.line # << >>
             THEN LET rule == createRule(n.result.line, sc.listId)
                  IN  IF rule.kind = "error"
                      THEN [ret |-> FALSE, error |-> rule, scanner |-> n.scanner]
                      ELSE IF rule # NullIRule /\ ~isIgnored(sc, rule)
                      THEN [ret |-> TRUE, error |-> NoError,
                            scanner |-> [n.scanner EXCEPT !.currentRule = rule,
                                                          !.currentRuleIndex = lineIndex]]
                      ELSE scanForgetting(n.scanner)
             ELSE scanForgetting(n.scanner)

\* RuleScanner.scan: [ret, error, scanner].  The call of RuleBuilder.createRule is in
\* no try block: when the builder fails, scan() ends with the builder's error
\* instead of returning (error is that error and ret has no meaning), the line
\* read and counted, the current rule as it was.
RECURSIVE scan(_)
scan(sc) ==
    LET lineIndex == sc.currentPos
        n == readNextLine(sc)
    IN  IF n.result.end THEN [ret |-> FALSE, error |-> NoError, scanner |-> n.scanner]
        ELSE IF n.result.line # << >>
             THEN LET rule == createRule(n.result.line, sc.listId)
                  IN  IF rule.kind = "error"
                      THEN [ret |-> FALSE, error |-> rule, scanner |-> n.scanner]
                      ELSE IF rule # NullIRule /\ ~isIgnored(sc, rule)
                      THEN [ret |-> TRUE, error |-> NoError,
                            scanner |-> [n.scanner EXCEPT !.currentRule = rule,
                                                          !.currentRuleIndex = lineIndex]]
                      ELSE scan(n.scanner)
             ELSE scan(n.scanner)

\* A getRule that takes the index 0 for no index.
getRuleWithIndex(sc) ==
    IF sc.currentRule # NullIRule /\ sc.currentRuleIndex # 0
    THEN IndexedRule(sc.currentRule, sc.currentRuleIndex)
    ELSE NoIndexedRule

\* RuleScanner.getRule
getRule(sc) ==
    IF sc.currentRule # NullIRule
    THEN IndexedRule(sc.currentRule, sc.currentRuleIndex)
    ELSE NoIndexedRule

(***************************************************************************)
(* State and actions of the scanner and of the line readers                *)
(***************************************************************************)
VARIABLES
    \* the RuleScanner, with its reader
    scanner,
    \* what the scan() calls made so far returned, each with the getRule() after it
    scanLog,
    \* the errors the scan() calls made so far ended with instead of returning
    scanErrors,
    \* the last getRule() call: whether there was one and what it returned
    lastGetRule,
    \* what the readLine calls on a StringLineReader and on a FileLineReader of
    \* src/src/filterlist/rule-scanner.ts returned so far
    lineReads

scanVars == <<scanner, scanLog, scanErrors, lastGetRule, lineReads>>

\* The lines the model's lists are made of: a network rule, a comment, a cosmetic rule
\* with no newline after it, an empty line, a cosmetic rule without content after a
\* space, and a comment with a character of two bytes.
ListLines ==
    {<<"|","|","e","x","a","m","p","l","e",".","o","r","g","\n">>, <<"!"," ","t","e","s","t","\n">>, <<"#","#","b","a","n","n","e","r">>, <<"\n">>, <<" ","x",".","i","o","#","#","\n">>, <<"#"," ","é","\n">>}

\* How many of these lines a list has at most.
MaxLines == 3

\* How many scan() calls are made after the first one that returned false.
MaxEndScans == 2

\* How many readLine calls are made on one reader of src/src/filterlist/rule-scanner.ts.
MaxReads == 2

\* The texts of at most n lines out of the given ones.
RECURSIVE TextsOf(_, _)
TextsOf(lines, n) ==
    IF n = 0 THEN {<< >>}
    ELSE LET shorter == TextsOf(lines, n - 1)
         IN  shorter \cup {text \o line : text \in shorter, line \in lines}

ListTexts == TextsOf(ListLines, MaxLines)

NoGetRule == [called |-> FALSE, result |-> NoIndexedRule]

NoLineReads == [StringLineReader |-> << >>, FileLineReader |-> << >>]

\* No scanner in use: the state of the scanner variables in the specifications of
\* the other subsystems.
ScanInit ==
    /\ scanner = RuleScanner(LineReader(<< >>, 0), 1, FALSE)
    /\ scanLog = << >>
    /\ scanErrors = << >>
    /\ lastGetRule = NoGetRule
    /\ lineReads = NoLineReads

\* A new scanner over a list of the model, with or without cosmetic rules.
ScanStart ==
    /\ \E text \in ListTexts, ignoreCosmetic \in BOOLEAN :
          scanner = RuleScanner(LineReader(text, 0), 1, ignoreCosmetic)
    /\ scanLog = << >>
    /\ scanErrors = << >>
    /\ lastGetRule = NoGetRule
    /\ lineReads = NoLineReads

\* scanner.scan() and the scanner.getRule() after it, by a caller that goes on
\* calling after false and after an error
Scan ==
    LET r == scan(scanner)
    IN  /\ Cardinality({k \in 1..Len(scanLog) : ~scanLog[k].ret}) <= MaxEndScans
        /\ scanner' = r.scanner
        /\ IF r.error # NoError
           THEN /\ scanErrors' = Append(scanErrors, r.error)
                /\ UNCHANGED scanLog
           ELSE /\ scanLog' = Append(scanLog, [ret |-> r.ret, rule |-> getRule(r.scanner)])
                /\ UNCHANGED scanErrors
        /\ UNCHANGED <<lastGetRule, lineReads>>

\* scanner.getRule(), at any time
GetRule ==
    /\ lastGetRule' = [called |-> TRUE, result |-> getRule(scanner)]
    /\ UNCHANGED <<scanner, scanLog, scanErrors, lineReads>>

\* new StringLineReader(text).readLine(), once more on the same reader
StringReadLine ==
    /\ Len(lineReads.StringLineReader) < MaxReads
    /\ lineReads' = [lineReads EXCEPT !.StringLineReader =
                        Append(@, StringLineReaderReadLine(scanner.reader.text))]
    /\ UNCHANGED <<scanner, scanLog, scanErrors, lastGetRule>>

\* new FileLineReader(path).readLine(), once more on the same reader
FileReadLine ==
    /\ Len(lineReads.FileLineReader) < MaxReads
    /\ lineReads' = [lineReads EXCEPT !.FileLineReader =
                        Append(@, FileLineReaderReadLine(scanner.reader.text))]
    /\ UNCHANGED <<scanner, scanLog, scanErrors, lastGetRule>>

(***************************************************************************)
(* The engine's life: construction over a storage, loading, matching       *)
(* (src/src/engine/engine.ts, src/src/engine/network-engine.ts)            *)
(***************************************************************************)
VARIABLES
    \* the Engine: how far it is (new, constructed, loading, scanned, adding, loaded),
    \* the skipStorageScan argument of its constructor, the list of its storage, the
    \* load that was called (sync or async) with chunkSize and counter of
    \* loadRulesAsync, the rules given to the cosmetic engine, and what the load did:
    \* the number of its suspensions, the rules added since the last one and the
    \* rules added between the last two
    lifecycle,
    \* how many steps loadRulesAsync has run: calls of scanner.scan() and of
    \* this.addRule
    loadSteps

loadVars == <<lifecycle, loadSteps>>

\* The lines the lists of the storage are made of: a rule with a shortcut, a rule
\* without shortcut and domains, a comment and a cosmetic rule.
StorageLines ==
    {<<"a","z","-","a","d","s","\n">>, <<"|","|","x",".","i","o","^","$","s","c","r","i","p","t",",","d","o","c","u","m","e","n","t","\n">>, <<"!"," ","t","e","s","t","\n">>, <<"x",".","i","o","#","#",".","b","a","n","n","e","r","\n">>}

StorageLists == TextsOf(StorageLines, MaxLines)

\* The requests matched while an engine is loaded.
LoadRequests == {"qAz", "qDoc"}

\* The network rule of the model with the given text.
NetworkRuleNamed(text) == CHOOSE name \in NetworkRuleNames : NetworkRule[name].text = text

\* The rule object a scanner built: every scan builds objects of its own.
ScannedRule(indexedRule, scanId) ==
    [name |-> NetworkRuleNamed(indexedRule.rule.text), index |-> indexedRule.index,
     scan |-> scanId]

\* RuleStorage.createRuleStorageScanner over the one list of the storage
createRuleStorageScanner(list) == RuleScanner(LineReader(list, 0), 1, FALSE)

\* The rules RuleStorage.retrieveNetworkRule finds in a list: storage index -> name
RECURSIVE storageFrom(_, _)
storageFrom(sc, storage) ==
    LET r == scan(sc)
        indexedRule == getRule(r.scanner)
    IN  IF ~r.ret THEN storage
        ELSE CHOOSE map \in
                 {storageFrom(rest, found) :
                     rest \in {r.scanner},
                     found \in {IF indexedRule.rule.kind = "network"
                                 THEN MapSet(storage, indexedRule.index,
                                             NetworkRuleNamed(indexedRule.rule.text))
                                 ELSE storage}} : TRUE

RuleStorage(list) == storageFrom(createRuleStorageScanner(list), EmptyMap)

\* The fields of a network engine before its constructor scans.
NewNetworkEngine ==
    [rulesCount |-> 0, domainsLookupTable |-> EmptyMap, shortcutsLookupTable |-> EmptyMap,
     shortcutsHistogram |-> EmptyMap, otherRules |-> << >>]

\* The while loop of the NetworkEngine constructor: every network rule the scanner
\* gives is added.  The constructor has the storage as its only parameter: the
\* skipStorageScan that Engine passes as a second argument is not read.
RECURSIVE constructorScan(_, _, _)
constructorScan(n, sc, skipStorageScan) ==
    LET r == scan(sc)
        indexedRule == getRule(r.scanner)
    IN  IF ~r.ret THEN n
        ELSE CHOOSE fields \in
                 {constructorScan(added, rest, skipStorageScan) :
                     added \in {IF indexedRule # NoIndexedRule
                                    /\ indexedRule.rule.kind = "network"
                                 THEN addRule(n, ScannedRule(indexedRule, "constructor"),
                                              indexedRule.index)
                                 ELSE n},
                     rest \in {r.scanner}} : TRUE

\* The fields of the network engine in the current state.
CurrentNetworkEngine ==
    [rulesCount |-> rulesCount, domainsLookupTable |-> domainsLookupTable,
     shortcutsLookupTable |-> shortcutsLookupTable,
     shortcutsHistogram |-> shortcutsHistogram, otherRules |-> otherRules]

\* Engine.addRule(indexedRule) on the engines e = [network, cosmeticRules]: a network
\* rule goes to the network engine, a cosmetic rule to the cosmetic engine, which is
\* kept as the rules it was given, in order.
engineAddRule(e, indexedRule) ==
    IF indexedRule = NoIndexedRule THEN e
    ELSE IF indexedRule.rule.kind = "network"
         THEN [e EXCEPT !.network = addRule(e.network, ScannedRule(indexedRule, "loadRules"),
                                            indexedRule.index)]
         ELSE IF indexedRule.rule.kind = "cosmetic"
              THEN [e EXCEPT !.cosmeticRules = Append(@, indexedRule)]
              ELSE e

\* Engine.loadRules: while (scanner.scan()) { this.addRule(scanner.getRule()) }
RECURSIVE loadRules(_, _)
loadRules(e, sc) ==
    LET r == scan(sc)
    IN  IF ~r.ret THEN [engines |-> e, scanner |-> r.scanner]
        ELSE CHOOSE loaded \in
                 {loadRules(added, rest) :
                     added \in {engineAddRule(e, getRule(r.scanner))},
                     rest \in {r.scanner}} : TRUE

NoEngine ==
    [phase |-> "none", skipStorageScan |-> FALSE, list |-> << >>, mode |-> "none",
     chunkSize |-> 0, counter |-> 0, cosmeticRules |-> << >>,
     suspensions |-> 0, sinceSuspension |-> 0, between |-> 0]

\* No engine is built in the specifications of the other subsystems.
LoadInit == lifecycle = NoEngine /\ loadSteps = 0

\* An engine is about to be constructed over a list, scanning or not.
LoadStart ==
    /\ \E list \in StorageLists, skipStorageScan \in BOOLEAN :
          lifecycle = [NoEngine EXCEPT !.phase = "new", !.skipStorageScan = skipStorageScan,
                                       !.list = list]
    /\ loadSteps = 0

\* new Engine(ruleStorage, configuration, skipStorageScan)
NewEngine ==
    /\ lifecycle.phase = "new"
    /\ \E n \in {constructorScan(NewNetworkEngine,
                                   createRuleStorageScanner(lifecycle.list),
                                   lifecycle.skipStorageScan)} :
           /\ rulesCount' = n.rulesCount
           /\ domainsLookupTable' = n.domainsLookupTable
           /\ shortcutsLookupTable' = n.shortcutsLookupTable
           /\ shortcutsHistogram' = n.shortcutsHistogram
           /\ otherRules' = n.otherRules
           /\ addRuleCalls' = n.rulesCount
    /\ ruleStorage' = RuleStorage(lifecycle.list)
    /\ lastMatch' = NoMatch
    /\ lifecycle' = [lifecycle EXCEPT !.phase = "constructed"]
    /\ UNCHANGED <<storagePos, lastAdd, scanVars, loadSteps>>

\* Engine.loadRules(): the whole loop, which has no await
LoadRules ==
    /\ lifecycle.phase = "constructed"
    /\ \E r \in {loadRules([network |-> CurrentNetworkEngine,
                            cosmeticRules |-> lifecycle.cosmeticRules],
                           createRuleStorageScanner(lifecycle.list))} :
           /\ rulesCount' = r.engines.network.rulesCount
           /\ domainsLookupTable' = r.engines.network.domainsLookupTable
           /\ shortcutsLookupTable' = r.engines.network.shortcutsLookupTable
           /\ shortcutsHistogram' = r.engines.network.shortcutsHistogram
           /\ otherRules' = r.engines.network.otherRules
           /\ addRuleCalls' = addRuleCalls + (r.engines.network.rulesCount - rulesCount)
           /\ scanner' = r.scanner
           /\ lifecycle' = [lifecycle EXCEPT !.phase = "loaded", !.mode = "sync",
                                             !.cosmeticRules = r.engines.cosmeticRules]
    /\ lastMatch' = NoMatch
    /\ UNCHANGED <<ruleStorage, storagePos, lastAdd, scanLog, scanErrors, lastGetRule,
                   lineReads, loadSteps>>

\* Engine.loadRulesAsync(chunkSize): the scanner is created and the counter is 0
LoadRulesAsync(chunkSize) ==
    /\ lifecycle.phase = "constructed"
    /\ scanner' = createRuleStorageScanner(lifecycle.list)
    /\ scanLog' = << >>
    /\ scanErrors' = << >>
    /\ lifecycle' = [lifecycle EXCEPT !.phase = "loading", !.mode = "async",
                                      !.chunkSize = chunkSize, !.counter = 0]
    /\ UNCHANGED <<netVars, lastGetRule, lineReads, loadSteps>>

\* A loadRulesAsync that counts a rule in rulesCount before the await and files it in
\* the tables after it.
LoadScanCounting ==
    /\ lifecycle.phase = "loading"
    /\ Scan
    /\ LET r == scan(scanner)
           counter == lifecycle.counter + 1
       IN  /\ lifecycle' =
                 IF ~r.ret THEN [lifecycle EXCEPT !.phase = "loaded"]
                 ELSE IF counter >= lifecycle.chunkSize
                      THEN [lifecycle EXCEPT !.phase = "scanned", !.counter = 0,
                                             !.suspensions = @ + 1,
                                             !.between = lifecycle.sinceSuspension,
                                             !.sinceSuspension = 0]
                      ELSE [lifecycle EXCEPT !.phase = "adding", !.counter = counter]
           /\ rulesCount' = IF r.ret /\ counter >= lifecycle.chunkSize
                                 /\ getRule(r.scanner).rule.kind = "network"
                            THEN rulesCount + 1 ELSE rulesCount
    /\ loadSteps' = loadSteps + 1
    /\ UNCHANGED <<ruleStorage, storagePos, addRuleCalls, lastAdd, domainsLookupTable,
                   shortcutsLookupTable, shortcutsHistogram, otherRules, lastMatch>>

\* Engine.loadRulesAsync: scanner.scan() of the while condition and, when it returned
\* true, the counter and the if: the loop ends, or the call is suspended at the
\* await, or it goes on to this.addRule without suspending.
LoadScan ==
    /\ lifecycle.phase = "loading"
    /\ Scan
    /\ LET r == scan(scanner)
           counter == lifecycle.counter + 1
       IN  lifecycle' =
               IF ~r.ret THEN [lifecycle EXCEPT !.phase = "loaded"]
               ELSE IF counter >= lifecycle.chunkSize
                    THEN [lifecycle EXCEPT !.phase = "scanned", !.counter = 0,
                                           !.suspensions = @ + 1,
                                           !.between = lifecycle.sinceSuspension,
                                           !.sinceSuspension = 0]
                    ELSE [lifecycle EXCEPT !.phase = "adding", !.counter = counter]
    /\ loadSteps' = loadSteps + 1
    /\ UNCHANGED netVars

\* A loadRulesAsync that adds the rule only when it did not suspend before it.
LoadAddRuleUnlessSuspended ==
    /\ lifecycle.phase \in {"scanned", "adding"}
    /\ LET indexedRule == getRule(scanner)
       IN  /\ IF lifecycle.phase = "adding" /\ indexedRule # NoIndexedRule
                    /\ indexedRule.rule.kind = "network"
              THEN /\ NetworkEngineAddRule(ScannedRule(indexedRule, "loadRules"),
                                           indexedRule.index)
                   /\ addRuleCalls' = addRuleCalls + 1
              ELSE UNCHANGED <<rulesCount, domainsLookupTable, shortcutsLookupTable,
                               shortcutsHistogram, otherRules, addRuleCalls>>
           /\ lifecycle' =
                 [lifecycle EXCEPT !.phase = "loading",
                                   !.sinceSuspension = @ + 1,
                                   !.cosmeticRules =
                                       IF lifecycle.phase = "adding"
                                             /\ indexedRule # NoIndexedRule
                                             /\ indexedRule.rule.kind = "cosmetic"
                                       THEN Append(@, indexedRule) ELSE @]
    /\ lastMatch' = NoMatch
    /\ loadSteps' = loadSteps + 1
    /\ UNCHANGED <<ruleStorage, storagePos, lastAdd, scanVars>>

\* Engine.loadRulesAsync: this.addRule(scanner.getRule()), after the await or without
\* one.  Engine.addRule gives network rules to the network engine and cosmetic rules
\* to the cosmetic engine.
LoadAddRule ==
    /\ lifecycle.phase \in {"scanned", "adding"}
    /\ LET indexedRule == getRule(scanner)
       IN  /\ IF indexedRule # NoIndexedRule /\ indexedRule.rule.kind = "network"
              THEN /\ NetworkEngineAddRule(ScannedRule(indexedRule, "loadRules"),
                                           indexedRule.index)
                   /\ addRuleCalls' = addRuleCalls + 1
              ELSE UNCHANGED <<rulesCount, domainsLookupTable, shortcutsLookupTable,
                               shortcutsHistogram, otherRules, addRuleCalls>>
           /\ lifecycle' =
                 [lifecycle EXCEPT !.phase = "loading",
                                   !.sinceSuspension = @ + 1,
                                   !.cosmeticRules =
                                       IF indexedRule # NoIndexedRule
                                             /\ indexedRule.rule.kind = "cosmetic"
                                       THEN Append(@, indexedRule) ELSE @]
    /\ lastMatch' = NoMatch
    /\ loadSteps' = loadSteps + 1
    /\ UNCHANGED <<ruleStorage, storagePos, lastAdd, scanVars>>

\* Whether other calls can run now: the constructor has returned and no load is in
\* the middle of a synchronous stretch of its loop.
Yielded == lifecycle.phase \in {"constructed", "scanned", "loaded"}

\* NetworkEngine.matchAll(request) on an engine that was constructed
LoadMatchAll(q) ==
    /\ Yielded
    /\ MatchAll(q)
    /\ UNCHANGED <<loadVars, scanVars>>

\* Engine.matchRequest(request) on an engine that was constructed
LoadMatchRequest(q) ==
    /\ Yielded
    /\ MatchRequest(q)
    /\ UNCHANGED <<loadVars, scanVars>>

\* loadRulesAsync runs on: the step that is next in its loop is taken, after the
\* timer of the await has fired or in the same stretch.  Every step of the loop
\* counts in loadSteps and nothing else does; a load that has not ended can always
\* take its next step.
LoadStep == lifecycle.phase \in {"loading", "scanned", "adding"} /\ loadSteps' = loadSteps + 1
(***************************************************************************)
(* Specifications: one per subsystem; the subsystems share no state.       *)
(***************************************************************************)
vars == <<netVars, cosVars, cookieVars, scanVars, loadVars>>

Init == NetInit /\ CosInit /\ CookieInit /\ ScanInit /\ LoadInit

\* What the steps of one subsystem leave alone.
NetIdle == UNCHANGED netVars

CosmeticIdle == UNCHANGED cosVars

CookieIdle == UNCHANGED cookieVars

\* The scanner and the engine's life
ScanIdle == UNCHANGED <<scanVars, loadVars>>

LoadIdle == UNCHANGED loadVars

NetNext ==
    \/ \E name \in NetworkRuleNames : AddRule(name) /\ CosmeticIdle /\ CookieIdle /\ ScanIdle
    \/ \E q \in RequestNames : MatchAll(q) /\ CosmeticIdle /\ CookieIdle /\ ScanIdle
    \/ \E q \in RequestNames : MatchRequest(q) /\ CosmeticIdle /\ CookieIdle /\ ScanIdle

\* The network engine: rules are added and requests are matched, in any order.
NetSpec == Init /\ [][NetNext]_vars

\* The network engine's addRule alone: called with new rules and with rules it has.
AddRuleNext ==
    \/ \E name \in NetworkRuleNames : AddRule(name) /\ CosmeticIdle /\ CookieIdle /\ ScanIdle
    \/ \E storageIdx \in DOMAIN ruleStorage :
            AddRuleAgain(storageIdx) /\ CosmeticIdle /\ CookieIdle /\ ScanIdle

AddRuleSpec == Init /\ [][AddRuleNext]_vars

\* The rules added where the limits of the URL scan are tried.
CapRuleNames == {"rAz", "rC8", "rOther"}

\* The network engine matching URLs at the limits of the scan.
CapNext ==
    \/ \E name \in CapRuleNames : AddRule(name) /\ CosmeticIdle /\ CookieIdle /\ ScanIdle
    \/ \E q \in LongRequestNames : MatchAll(q) /\ CosmeticIdle /\ CookieIdle /\ ScanIdle

CapSpec == Init /\ [][CapNext]_vars

\* The rules and requests tried on a storage that loses rules.
MissRuleNames == {"rAz", "rC8", "rDomAz", "rOther"}

MissRequestNames == {"qAz", "qC8", "qDoc"}

\* The network engine over a storage from which rules are removed.
MissNext ==
    \/ \E name \in MissRuleNames : AddRule(name) /\ CosmeticIdle /\ CookieIdle /\ ScanIdle
    \/ \E storageIdx \in DOMAIN ruleStorage :
            StorageRemove(storageIdx) /\ CosmeticIdle /\ CookieIdle /\ ScanIdle
    \/ \E q \in MissRequestNames : MatchAll(q) /\ CosmeticIdle /\ CookieIdle /\ ScanIdle

MissSpec == Init /\ [][MissNext]_vars

\* The rules and requests the order of the domain lookup is tried with.
DomainRuleNames == {"rDomAz", "rDomSub", "rDomC8", "rOther"}

DomainRequestNames == {"qSub", "qAz", "qCase"}

\* The network engine with rules for a domain and for a subdomain of it.
DomainNext ==
    \/ \E name \in DomainRuleNames : AddRule(name) /\ CosmeticIdle /\ CookieIdle /\ ScanIdle
    \/ \E q \in DomainRequestNames : MatchAll(q) /\ CosmeticIdle /\ CookieIdle /\ ScanIdle

DomainSpec == Init /\ [][DomainNext]_vars

CosmeticNext ==
    \/ \E name \in CosmeticRuleNames : CosmeticAddRule(name) /\ NetIdle /\ CookieIdle /\ ScanIdle
    \/ \E hostname \in Hostnames : FindByHostname(hostname) /\ NetIdle /\ CookieIdle /\ ScanIdle
    \/ \E hostname \in Hostnames, name \in CosmeticRuleNames :
            IsWhitelisted(hostname, name) /\ NetIdle /\ CookieIdle /\ ScanIdle

\* The cosmetic lookup table: rules are added and hostnames are looked up, in any order.
CosmeticSpec == Init /\ [][CosmeticNext]_vars

\* The arguments the cookie filter is called with when requests interleave.
SmallHeaderLists ==
    {<<Header(<<"C","o","o","k","i","e">>, <<"t","=","1",";"," ","J","=","x">>)>>, <<Header(<<"H","o","s","t">>, <<"x",".","i","o">>)>>}

SmallCookieRuleLists == {<<"kBlock">>, <<"kAge", "kLax">>, <<"kAll">>}

CookieNext ==
    \/ \E request \in CookieRequests, requestHeaders \in SmallHeaderLists,
          cookieRules \in SmallCookieRuleLists :
            ProcessRequestHeaders(request, requestHeaders, cookieRules)
            /\ NetIdle /\ CosmeticIdle /\ ScanIdle
    \/ \E request \in CookieRequests, clock \in Clocks :
            ModifyCookies(request.requestId, clock) /\ NetIdle /\ CosmeticIdle /\ ScanIdle

\* The cookie filter: request phases and response phases of the requests, in any order.
CookieSpec == Init /\ [][CookieNext]_vars

\* One request through its two phases, for every request, header list and rule list:
\* the arguments are drawn at the start.
PhasesInit ==
    /\ NetInit /\ CosInit /\ ScanInit /\ LoadInit
    /\ cookiesMap = EmptyMap
    /\ \E request \in CookieRequests, requestHeaders \in HeaderLists,
          cookieRules \in CookieRuleLists :
            lastRequestPhase = [op |-> "call", request |-> request,
                                requestHeaders |-> requestHeaders,
                                cookieRules |-> cookieRules]
    /\ lastResponsePhase = NoPhase

PhasesNext ==
    \/ /\ lastRequestPhase.op = "call"
       /\ ProcessRequestHeaders(lastRequestPhase.request, lastRequestPhase.requestHeaders,
                                lastRequestPhase.cookieRules)
       /\ NetIdle /\ CosmeticIdle /\ ScanIdle
    \/ /\ lastRequestPhase.op = "processRequestHeaders"
       /\ lastResponsePhase.op = "none"
       /\ \E clock \in Clocks : ModifyCookies(lastRequestPhase.request.requestId, clock)
       /\ NetIdle /\ CosmeticIdle /\ ScanIdle

CookiePhasesSpec == PhasesInit /\ [][PhasesNext]_vars


\* A scanner over one list: scan() and getRule() calls, in any order.
ScanNext ==
    \/ Scan /\ NetIdle /\ CosmeticIdle /\ CookieIdle /\ LoadIdle
    \/ GetRule /\ NetIdle /\ CosmeticIdle /\ CookieIdle /\ LoadIdle

\* A scanner over one of the lists, nothing else constructed.
ScannerInit == NetInit /\ CosInit /\ CookieInit /\ ScanStart /\ LoadInit

ScanSpec == ScannerInit /\ [][ScanNext]_vars

\* The readers of src/src/filterlist/rule-scanner.ts over one list: readLine() calls.
ReaderNext ==
    \/ StringReadLine /\ NetIdle /\ CosmeticIdle /\ CookieIdle /\ LoadIdle
    \/ FileReadLine /\ NetIdle /\ CosmeticIdle /\ CookieIdle /\ LoadIdle

ReaderSpec == ScannerInit /\ [][ReaderNext]_vars

\* An engine over one list: constructed, then loaded rule by rule with
\* loadRulesAsync(1), and asked to match at any time in between.
LoadNext ==
    \/ NewEngine /\ CosmeticIdle /\ CookieIdle
    \/ LoadRulesAsync(1) /\ CosmeticIdle /\ CookieIdle
    \/ LoadScan /\ CosmeticIdle /\ CookieIdle
    \/ LoadAddRule /\ CosmeticIdle /\ CookieIdle
    \/ \E q \in LoadRequests : LoadMatchAll(q) /\ CosmeticIdle /\ CookieIdle

\* A storage of one list, no engine constructed yet.
StorageInit == NetInit /\ CosInit /\ CookieInit /\ ScanInit /\ LoadStart

LoadSpec == StorageInit /\ [][LoadNext]_vars

\* How many lines the lists have that are loaded with a chunk size.
MaxChunkLines == 4

\* The largest chunk size loadRulesAsync is called with.
MaxChunkSize == 3

\* The lines of these lists: a rule with a shortcut, a rule with permitted domains and
\* no shortcut, and a cosmetic rule.
ChunkLines == {<<"a","z","-","a","d","s","\n">>, <<"a","d","s","$","d","o","m","a","i","n","=","a","z",".","i","o","|","x",".","i","o","\n">>, <<"x",".","i","o","#","#",".","b","a","n","n","e","r","\n">>}

ChunkLists == TextsOf(ChunkLines, MaxChunkLines)

\* The chunk sizes: none, one rule, several rules.
ChunkSizes == 0..MaxChunkSize

\* new RuleStorage([list]): the storage an engine is constructed over next, scanning
\* or not.
NewStorage ==
    /\ lifecycle.phase = "none"
    /\ \E list \in ChunkLists, skipStorageScan \in BOOLEAN :
          lifecycle' = [NoEngine EXCEPT !.phase = "new",
                                        !.skipStorageScan = skipStorageScan, !.list = list]
    /\ UNCHANGED <<netVars, scanVars, loadSteps>>

\* An engine over one list: constructed, then loaded with loadRules or with
\* loadRulesAsync(chunkSize), and asked to match whenever no call is running.
ChunkNext ==
    \/ NewStorage /\ CosmeticIdle /\ CookieIdle
    \/ NewEngine /\ CosmeticIdle /\ CookieIdle
    \/ LoadRules /\ CosmeticIdle /\ CookieIdle
    \/ \E chunkSize \in ChunkSizes : LoadRulesAsync(chunkSize) /\ CosmeticIdle /\ CookieIdle
    \/ LoadScan /\ CosmeticIdle /\ CookieIdle
    \/ LoadAddRule /\ CosmeticIdle /\ CookieIdle
    \/ \E q \in LoadRequests : LoadMatchRequest(q) /\ CosmeticIdle /\ CookieIdle

ChunkSpec == Init /\ [][ChunkNext]_vars

\* The same, with the timer of every await firing and the resumed call running on: a
\* load that was started and has not ended takes its next step.
ChunkFairSpec == Init /\ [][ChunkNext]_vars /\ WF_loadSteps(LoadStep)
(***************************************************************************)
(* Properties of the network engine (checked under NetSpec)                *)
(***************************************************************************)
\* The rule objects the engine was given: one per line of the storage.
AddedRules == {RuleObject(ruleStorage[i], i) : i \in DOMAIN ruleStorage}

InShortcutsTable(r) ==
    \E h \in DOMAIN shortcutsLookupTable : includes(shortcutsLookupTable[h], r.index)

InDomainsTable(r) ==
    \E h \in DOMAIN domainsLookupTable : includes(domainsLookupTable[h], r.index)

\* C1: completeness of matchAll.  When matchAll(request) has returned, for a request
\* whose lowercased URL has at most 4096 characters, every rule added to the engine
\* for which rule.match(request) holds is in the returned list.
C1_MatchAllComplete ==
    (lastMatch.op = "matchAll"
        /\ Len(Request[lastMatch.request].urlLowercase) <= MAX_URL_LENGTH)
    => \A r \in AddedRules :
          ruleMatch(r, Request[lastMatch.request]) => includes(lastMatch.result, r)

\* matchAll has returned three matching rules, one added to each of the shortcuts
\* table, the domains table and otherRules.
C1_Witness ==
    /\ lastMatch.op = "matchAll"
    /\ \E r1, r2, r3 \in AddedRules :
          /\ InShortcutsTable(r1) /\ InDomainsTable(r2) /\ includes(otherRules, r3)
          /\ \A r \in {r1, r2, r3} :
                ruleMatch(r, Request[lastMatch.request]) /\ includes(lastMatch.result, r)

\* C2: soundness of matchAll.  Every rule of the returned list satisfies
\* rule.match(request), also for a bucket that holds rules of different shortcuts
\* or domains.
C2_MatchAllSound ==
    lastMatch.op = "matchAll"
    => \A k \in 1..Len(lastMatch.result) :
          ruleMatch(lastMatch.result[k], Request[lastMatch.request])

\* One bucket of the shortcuts table holds two rules that have no shortcut in
\* common (their shortcuts collide on the hash); the URL of the request has a
\* window with that hash, one of the two rules matches and is returned, the other
\* does not match.
C2_Witness ==
    /\ lastMatch.op = "matchAll"
    /\ \E h \in DOMAIN shortcutsLookupTable, r1, r2 \in AddedRules :
          /\ includes(shortcutsLookupTable[h], r1.index)
          /\ includes(shortcutsLookupTable[h], r2.index)
          /\ Range(getRuleShortcuts(NetworkRule[r1.name]))
                \cap Range(getRuleShortcuts(NetworkRule[r2.name])) = {}
          /\ LET url == Request[lastMatch.request].urlLowercase
             IN  \E i \in 0..(Len(url) - SHORTCUT_LENGTH) : windowHash(url, i) = h
          /\ ruleMatch(r1, Request[lastMatch.request])
          /\ includes(lastMatch.result, r1)
          /\ ~ruleMatch(r2, Request[lastMatch.request])

\* The index structures of the network engine.
IndexStructures ==
    <<shortcutsLookupTable, shortcutsHistogram, domainsLookupTable, otherRules, rulesCount>>

\* C3: determinism of network matching.  A call of matchAll or matchRequest that
\* follows a call with the same request, with no rule added in between, returns the
\* lists the first call returned; and the calls (the steps that leave a call in
\* lastMatch) leave shortcutsLookupTable, shortcutsHistogram, domainsLookupTable,
\* otherRules and rulesCount unchanged.
C3_MatchingDeterministic ==
    /\ [](lastMatch.op # "none" /\ lastMatch.repeated
            => lastMatch.result = lastMatch.previous)
    /\ [][lastMatch'.op # "none" => UNCHANGED IndexStructures]_vars

\* matchRequest was called twice in a row with a request for which it returns rules
\* for the request and rules for its source URL.
C3_Witness ==
    /\ lastMatch.op = "matchRequest"
    /\ lastMatch.repeated
    /\ lastMatch.result.networkRules # << >>
    /\ lastMatch.result.sourceRules # << >>

(***************************************************************************)
(* Properties of the cosmetic lookup table (checked under CosmeticSpec)    *)
(***************************************************************************)
\* C4: the cosmetic lookup table is read-only after load.  findByHostname and
\* isWhitelisted (the steps that leave a call in lastLookup) never change
\* byHostname, wildcardRules, genericRules or whitelist, and a findByHostname call
\* that repeats the call before it returns the same list of rules.
C4_LookupReadOnly ==
    /\ [][lastLookup'.op # "none"
            => UNCHANGED <<byHostname, wildcardRules, genericRules, whitelist>>]_vars
    /\ [](lastLookup.op = "findByHostname" /\ lastLookup.repeated
            => lastLookup.result = lastLookup.previous)

(***************************************************************************)
(* Properties of the cookie filter: the request phase (checked under       *)
(* CookiePhasesSpec)                                                       *)
(***************************************************************************)
\* processRequestHeaders has just returned: lastRequestPhase holds the call and
\* cookiesMap is the map it left.
AfterRequestPhase ==
    lastRequestPhase.op = "processRequestHeaders" /\ lastResponsePhase.op = "none"

\* The position of the Cookie header among the headers of the call, 0 if there is none.
CookieHeaderAt == findHeaderByName(lastRequestPhase.requestHeaders, <<"C","o","o","k","i","e">>)

\* The cookies of the Cookie header before and after the call.
CookiesBefore ==
    IF CookieHeaderAt = 0 THEN << >>
    ELSE parseCookie(lastRequestPhase.requestHeaders[CookieHeaderAt].value)

CookiesAfter ==
    IF CookieHeaderAt = 0 THEN << >>
    ELSE parseCookie(lastRequestPhase.headers[CookieHeaderAt].value)

\* The rules of the call that match a cookie name, and those of them that do not modify.
MatchingRules(name) ==
    SelectSeq(lastRequestPhase.cookieRules, LAMBDA r : cookieModifierMatches(r, name))

NotModifyingRules(name) == SelectSeq(MatchingRules(name), LAMBDA r : ~isModifyingRule(r))

\* The first matching non-modifying rule of the cookie is not a whitelist rule.
IsBlocked(c) ==
    /\ NotModifyingRules(c.name) # << >>
    /\ ~cookieRuleIsWhitelist(Head(NotModifyingRules(c.name)))

\* The first matching non-modifying rule of the cookie is a whitelist rule.
IsWhitelistedCookie(c) ==
    /\ NotModifyingRules(c.name) # << >>
    /\ cookieRuleIsWhitelist(Head(NotModifyingRules(c.name)))

\* Rules match the cookie and all of them modify.
IsOnlyModified(c) == MatchingRules(c.name) # << >> /\ NotModifyingRules(c.name) = << >>

Scheduled(map, requestId) == IF MapHas(map, requestId) THEN map[requestId] ELSE << >>

\* The schedule of the request id before the call is a prefix of its schedule after.
AppendsOnly ==
    LET before == Scheduled(lastRequestPhase.mapBefore, lastRequestPhase.request.requestId)
        after == Scheduled(cookiesMap, lastRequestPhase.request.requestId)
    IN  Len(before) <= Len(after) /\ SubSeq(after, 1, Len(before)) = before

\* The entries the call appended to the schedule of the request id.
AppendedEntries ==
    LET before == Scheduled(lastRequestPhase.mapBefore, lastRequestPhase.request.requestId)
        after == Scheduled(cookiesMap, lastRequestPhase.request.requestId)
    IN  SubSeq(after, Len(before) + 1, Len(after))

Count(seq, x) == Cardinality({i \in 1..Len(seq) : seq[i] = x})

\* How many cookies of the header carry that name.
Occurrences(name) == Cardinality({i \in 1..Len(CookiesBefore) : CookiesBefore[i].name = name})

\* The headers other than the Cookie header are what they were.
OtherHeadersKept ==
    /\ Len(lastRequestPhase.headers) = Len(lastRequestPhase.requestHeaders)
    /\ \A k \in 1..Len(lastRequestPhase.headers) :
          /\ lastRequestPhase.headers[k].name = lastRequestPhase.requestHeaders[k].name
          /\ k # CookieHeaderAt
                => lastRequestPhase.headers[k] = lastRequestPhase.requestHeaders[k]

\* C5: cookie blocking in the request phase.  When the Cookie header holds a cookie
\* whose first matching non-modifying rule is not a whitelist rule,
\* processRequestHeaders returns true, the header value is the cookies that are not
\* blocked, in their order, joined with "; ", and for every blocked cookie the
\* schedule of the request id got the entry {remove: true, name, url, [that rule]}.
C5_BlockedCookiesRemoved ==
    (AfterRequestPhase /\ \E i \in 1..Len(CookiesBefore) : IsBlocked(CookiesBefore[i]))
    => /\ lastRequestPhase.ret = TRUE
       /\ lastRequestPhase.headers[CookieHeaderAt].value
             = joinCookies(SelectSeq(CookiesBefore, LAMBDA c : ~IsBlocked(c)))
       /\ OtherHeadersKept
       /\ AppendsOnly
       /\ \A i \in 1..Len(CookiesBefore) :
             LET c == CookiesBefore[i]
             IN  IsBlocked(c)
                 => Count(AppendedEntries,
                          ScheduleEntry(TRUE, c.name, lastRequestPhase.request.url,
                                        <<Head(NotModifyingRules(c.name))>>))
                       = Occurrences(c.name)

\* A call whose rules hold a whitelist rule after the blocking rule dropped one
\* cookie of a header of at least two and kept another.
C5_Witness ==
    /\ AfterRequestPhase
    /\ lastRequestPhase.ret = TRUE
    /\ \E i, j \in 1..Len(CookiesBefore) :
          /\ IsBlocked(CookiesBefore[i])
          /\ Len(NotModifyingRules(CookiesBefore[i].name)) = 2
          /\ ~IsBlocked(CookiesBefore[j])
          /\ CookiesAfter = <<CookiesBefore[j]>>

\* C6: a whitelisted cookie is only observed.  For a cookie of the Cookie header whose
\* first matching non-modifying rule is a whitelist rule, processRequestHeaders keeps
\* the cookie in the header, and the modifyCookies call of that request id that
\* follows makes no removeCookie and no modifyCookie call for the cookie.
C6_WhitelistedCookieOnlyObserved ==
    (/\ lastRequestPhase.op = "processRequestHeaders"
     /\ Scheduled(lastRequestPhase.mapBefore, lastRequestPhase.request.requestId) = << >>
     /\ lastResponsePhase.op = "modifyCookies"
     /\ lastResponsePhase.requestId = lastRequestPhase.request.requestId)
    => \A i \in 1..Len(CookiesBefore) :
          LET c == CookiesBefore[i]
          IN  IsWhitelistedCookie(c)
              => /\ Count(CookiesAfter, c) = Count(CookiesBefore, c)
                 /\ \A k \in 1..Len(lastResponsePhase.calls) :
                       LET call == lastResponsePhase.calls[k]
                       IN  /\ call.op = "removeCookie" => call.name # c.name
                           /\ call.op = "modifyCookie" => call.cookie.name # c.name

\* C7: cookie modification in the request phase.  For a cookie that only modifying
\* rules match, processRequestHeaders keeps the cookie in the header; when no cookie
\* of the header is blocked the headers are unchanged and it returns false; and the
\* schedule of the request id got, for the cookie, exactly the one entry
\* {remove: false, name, url, rules} with all the matching rules in cookieRules order.
C7_ModifiedCookiesScheduled ==
    AfterRequestPhase
    => \A i \in 1..Len(CookiesBefore) :
          LET c == CookiesBefore[i]
          IN  IsOnlyModified(c)
              => /\ Count(CookiesAfter, c) = Count(CookiesBefore, c)
                 /\ (\A j \in 1..Len(CookiesBefore) : ~IsBlocked(CookiesBefore[j]))
                       => /\ lastRequestPhase.headers = lastRequestPhase.requestHeaders
                          /\ lastRequestPhase.ret = FALSE
                 /\ AppendsOnly
                 /\ Count(AppendedEntries,
                          ScheduleEntry(FALSE, c.name, lastRequestPhase.request.url,
                                        MatchingRules(c.name)))
                       = Occurrences(c.name)
                 /\ Cardinality({k \in 1..Len(AppendedEntries) :
                                    AppendedEntries[k].cookie.name = c.name})
                       = Occurrences(c.name)

\* Two modifying rules match a cookie of the header, no cookie is blocked and the
\* call returned false.
C7_Witness ==
    /\ AfterRequestPhase
    /\ lastRequestPhase.ret = FALSE
    /\ \E i \in 1..Len(CookiesBefore) :
          /\ IsOnlyModified(CookiesBefore[i])
          /\ Len(MatchingRules(CookiesBefore[i].name)) = 2
          /\ MatchingRules(CookiesBefore[i].name)[1] # MatchingRules(CookiesBefore[i].name)[2]
    /\ AppendedEntries # << >>

(***************************************************************************)
(* Properties of the cookie filter: the response phase                     *)
(***************************************************************************)
\* The CookieApi call that handles a remove entry.
RemoveCall(entry) ==
    [op |-> "removeCookie", name |-> entry.cookie.name, url |-> entry.cookie.url]

\* C8 (checked under CookieSpec): the response phase drains the schedule.  When
\* modifyCookies(requestId) has returned, the entries its loop handled are the
\* entries that were scheduled for requestId, each once and in their order, the
\* removeCookie calls made are those of the remove entries in that order, the map
\* holds no entry for requestId and the schedules of the other request ids are what
\* they were; and processRequestHeaders only appends to a schedule, so that after a
\* drain the schedule holds the later entries only.
C8_ScheduleDrained ==
    /\ lastResponsePhase.op = "modifyCookies"
          => LET requestId == lastResponsePhase.requestId
                 entries == Scheduled(lastResponsePhase.mapBefore, requestId)
                 removals == SelectSeq(entries, LAMBDA e : e.remove)
             IN  /\ lastResponsePhase.handled = entries
                 /\ SelectSeq(lastResponsePhase.calls, LAMBDA call : call.op = "removeCookie")
                       = [k \in 1..Len(removals) |-> RemoveCall(removals[k])]
                 /\ ~MapHas(cookiesMap, requestId)
                 /\ \A other \in DOMAIN lastResponsePhase.mapBefore \ {requestId} :
                       /\ MapHas(cookiesMap, other)
                       /\ cookiesMap[other] = lastResponsePhase.mapBefore[other]
    /\ AfterRequestPhase
          => /\ AppendsOnly
             /\ ~MapHas(lastRequestPhase.mapBefore, lastRequestPhase.request.requestId)
                   => Len(Scheduled(cookiesMap, lastRequestPhase.request.requestId))
                         <= Len(CookiesBefore)

\* modifyCookies has drained a schedule of a remove entry and a modify entry, with
\* calls to CookieApi for both, while another request id keeps its schedule.
C8_Witness ==
    /\ lastResponsePhase.op = "modifyCookies"
    /\ LET entries == Scheduled(lastResponsePhase.mapBefore, lastResponsePhase.requestId)
       IN  /\ Len(entries) >= 2
           /\ \E i, j \in 1..Len(entries) : i < j /\ entries[i].remove /\ ~entries[j].remove
    /\ \E k \in 1..Len(lastResponsePhase.calls) : lastResponsePhase.calls[k].op = "modifyCookie"
    /\ \E other \in DOMAIN cookiesMap : cookiesMap[other] # << >>

\* Whether a stored cookie expires, and the milliseconds it has left at the clock
\* reading now: its maxAge when it has one, otherwise expires minus now.
HasLifetime(cookie) == cookie.maxAge # NoNumber \/ cookie.expires # NoNumber

RemainingLifetime(cookie, now) ==
    IF cookie.maxAge # NoNumber THEN 1000 * cookie.maxAge ELSE cookie.expires - now

\* C9 (checked under CookiePhasesSpec): maxAge only tightens.  After a rule with
\* maxAge = M > 0 (and no sameSite) is applied alone to a stored cookie, the cookie
\* has at most M seconds left; and a cookie that had at most M seconds left is
\* unchanged and the rule is not reported as applied.
C9_MaxAgeOnlyTightens ==
    lastResponsePhase.op = "modifyCookies"
    => \A k \in 1..Len(lastResponsePhase.applications) :
          LET a == lastResponsePhase.applications[k]
          IN  (/\ Len(a.rules) = 1
               /\ getMaxAge(a.rules[1]) # NoNumber /\ getMaxAge(a.rules[1]) > 0
               /\ getSameSite(a.rules[1]) = Null)
              => /\ HasLifetime(a.after)
                 /\ RemainingLifetime(a.after, a.now) <= 1000 * getMaxAge(a.rules[1])
                 /\ (/\ HasLifetime(a.before)
                     /\ RemainingLifetime(a.before, a.now) <= 1000 * getMaxAge(a.rules[1]))
                       => a.after = a.before /\ a.appliedRules = << >>

\* The cookie after each of the first i rules of an entry was applied, i = 0..n.
Trail(cookie, rules, clock) ==
    [i \in 0..Len(rules) |-> applyRuleToBrowserCookie(cookie, SubSeq(rules, 1, i), clock).cookie]

\* One of the entry's rules changed a field of the stored cookie.
SomeRuleChangedAField(a) ==
    \E i \in 1..Len(a.rules) :
        Trail(a.before, a.rules, a.clock)[i] # Trail(a.before, a.rules, a.clock)[i - 1]

\* C10 (checked under CookiePhasesSpec): for a scheduled modify entry and a stored
\* cookie getCookies returned, modifyCookie is called if and only if one of the
\* entry's rules changed a field of the cookie, and the modifyCookie calls made are
\* one per such cookie; a stored cookie with sameSite strict under the single rule
\* sameSite=lax gets the call, with sameSite lax.
C10_ModifyCookieIffChanged ==
    lastResponsePhase.op = "modifyCookies"
    => LET called == SelectSeq(lastResponsePhase.applications, LAMBDA a : a.modifyCalled)
       IN  /\ \A k \in 1..Len(lastResponsePhase.applications) :
                 LET a == lastResponsePhase.applications[k]
                 IN  /\ a.modifyCalled <=> SomeRuleChangedAField(a)
                     /\ (/\ a.before.sameSite = "strict"
                         /\ Len(a.rules) = 1
                         /\ getSameSite(a.rules[1]) = "lax"
                         /\ getMaxAge(a.rules[1]) = NoNumber)
                           => a.modifyCalled /\ a.after.sameSite = "lax"
           /\ SelectSeq(lastResponsePhase.calls, LAMBDA call : call.op = "modifyCookie")
                 = [k \in 1..Len(called) |->
                       [op |-> "modifyCookie", cookie |-> called[k].after, url |-> called[k].url]]


(***************************************************************************)
(* Properties of the cookie filter: requests in flight together            *)
(***************************************************************************)
\* The request id the step just taken worked for: a response phase leaves the record
\* of the request phase alone, a request phase clears the record of the response phase.
ActingRequestId ==
    IF lastResponsePhase'.op = "modifyCookies"
    THEN lastResponsePhase'.requestId
    ELSE lastRequestPhase'.request.requestId

\* Whether a CookieApi call is the one an entry of the schedule asks for.
CallServes(call, entry) ==
    IF entry.remove
    THEN call = RemoveCall(entry)
    ELSE /\ call.op = "modifyCookie"
         /\ call.cookie.name = entry.cookie.name
         /\ call.url = entry.cookie.url

\* C11 (checked under CookieSpec): the phases of different request ids are
\* independent.  A processRequestHeaders or modifyCookies step for one request id
\* leaves the schedule of every other request id as it was, present or absent, same
\* entries in the same order; and every CookieApi call of modifyCookies(requestId)
\* serves an entry that was scheduled under requestId.
C11_RequestsIndependent ==
    /\ [](lastResponsePhase.op = "modifyCookies"
            => \A k \in 1..Len(lastResponsePhase.calls) :
                  \E j \in 1..Len(Scheduled(lastResponsePhase.mapBefore,
                                            lastResponsePhase.requestId)) :
                     CallServes(lastResponsePhase.calls[k],
                                Scheduled(lastResponsePhase.mapBefore,
                                          lastResponsePhase.requestId)[j]))
    /\ [][\A other \in {request.requestId : request \in CookieRequests} :
             (cookiesMap' # cookiesMap /\ other # ActingRequestId)
                => /\ MapHas(cookiesMap', other) = MapHas(cookiesMap, other)
                   /\ Scheduled(cookiesMap', other) = Scheduled(cookiesMap, other)]_vars

\* Request A was scheduled, then request B, then A's response phase ran and called
\* CookieApi while B's entries, for another URL, were waiting in the map.
C11_Witness ==
    /\ lastResponsePhase.op = "modifyCookies"
    /\ lastRequestPhase.op = "processRequestHeaders"
    /\ lastRequestPhase.request.requestId # lastResponsePhase.requestId
    /\ lastResponsePhase.calls # << >>
    /\ Scheduled(lastResponsePhase.mapBefore, lastRequestPhase.request.requestId) # << >>
    /\ Scheduled(cookiesMap, lastRequestPhase.request.requestId) # << >>

(***************************************************************************)
(* Properties of the scanner                                               *)
(***************************************************************************)
\* The physical lines of a text, each with its newline.
RECURSIVE LinesOf(_)
LinesOf(text) ==
    IF text = << >> THEN << >>
    ELSE LET ends == {i \in 1..Len(text) : text[i] = "\n"} \cup {Len(text)}
             e == CHOOSE i \in ends : \A j \in ends : i <= j
         IN  <<SubSeq(text, 1, e)>> \o LinesOf(SubSeq(text, e + 1, Len(text)))

\* The list the scanner reads and its lines.
ListText == scanner.reader.text

ListLinesRead == LinesOf(ListText)

\* The rule line j of the list builds, if any.
RuleOfLine(j) == createRule(trim(ListLinesRead[j]), scanner.listId)

\* Whether line j of the list builds a rule that the scanner does not ignore.
BuildsRule(j) ==
    /\ RuleOfLine(j) # NullIRule
    /\ RuleOfLine(j).kind # "error"
    /\ ~(scanner.ignoreCosmetic /\ RuleOfLine(j).kind = "cosmetic")

\* The numbers of the lines that build such a rule, in the order of the list.
RuleLines ==
    SelectSeq([j \in 1..Len(ListLinesRead) |-> j], LAMBDA j : BuildsRule(j))

\* The number of bytes of the lines before line j.
RECURSIVE BytesBefore(_)
BytesBefore(j) ==
    IF j <= 1 THEN 0 ELSE BytesBefore(j - 1) + byteLength(ListLinesRead[j - 1])

\* The scan() calls that returned true and those that returned false.
TrueScans == {k \in 1..Len(scanLog) : scanLog[k].ret}

FalseScans == {k \in 1..Len(scanLog) : ~scanLog[k].ret}

\* C12 (checked under ScanSpec): the scanner is complete.  With K lines of the list
\* building a rule that is not ignored, the k-th scan() call returns true exactly
\* when k <= K, getRule() then gives the rule of the k-th such line, every later
\* call returns false, and the indexes of the rules given are strictly increasing.
C12_ScannerComplete ==
    /\ \A k \in 1..Len(scanLog) :
          /\ scanLog[k].ret = (k <= Len(RuleLines))
          /\ k <= Len(RuleLines) => scanLog[k].rule.rule = RuleOfLine(RuleLines[k])
    /\ \A k, m \in TrueScans : k < m => scanLog[k].rule.index < scanLog[m].rule.index

\* A list with a skipped line between two rules was scanned to its end: two calls
\* returned true and two more returned false.
C12_Witness ==
    /\ Cardinality(TrueScans) = 2
    /\ Cardinality(FalseScans) = 2
    /\ Len(ListLinesRead) = 3
    /\ ~BuildsRule(2)

\* The list of the scenario: '||example.org', '! test', '##banner'.
ScenarioList == <<"|","|","e","x","a","m","p","l","e",".","o","r","g","\n","!"," ","t","e","s","t","\n","#","#","b","a","n","n","e","r">>

\* C13 (checked under ScanSpec): the index of a rule the scanner gives is the number
\* of bytes of the lines read before the rule's line, each with the newline the
\* reader returned and whether the line was skipped or not; for the list
\* '||example.org', '! test', '##banner' the two rules have the indexes 0 and 21.
C13_IndexIsByteOffset ==
    /\ \A k \in TrueScans :
          k <= Len(RuleLines) => scanLog[k].rule.index = BytesBefore(RuleLines[k])
    /\ (ListText = ScenarioList /\ ~scanner.ignoreCosmetic /\ Len(scanLog) >= 2)
          => /\ scanLog[1].ret /\ scanLog[1].rule.index = 0
             /\ scanLog[2].ret /\ scanLog[2].rule.index = 21

\* A rule was given whose line comes after a line with a character of two bytes and
\* white space that trimming removes: its index is neither the number of characters
\* before it nor the number of bytes of the trimmed lines.
C13_Witness ==
    \E k \in TrueScans :
        /\ k <= Len(RuleLines)
        /\ scanLog[k].rule.index # Len(ListText) - Len(ListLinesRead[Len(ListLinesRead)])
        /\ RuleLines[k] = Len(ListLinesRead)
        /\ \E j \in 1..(RuleLines[k] - 1) :
              byteLength(ListLinesRead[j]) # Len(ListLinesRead[j])

\* Whether building a rule from line j fails.
IsBadLine(j) == RuleOfLine(j).kind = "error"

\* C15 (checked under ScanSpec): the scanner does not stop at a bad rule.  No
\* scan() call ends with an error: a line whose rule cannot be built is skipped and
\* the call goes on to the lines after it.  scan() has returned false only with the
\* reader at the end of the list, the bytes of every line read are counted, bad
\* lines included, and once scan() has returned false every rule whose line comes
\* after a bad line has been given, with its index.
C15_BadRuleSkipped ==
    /\ scanErrors = << >>
    /\ FalseScans # {} => scanner.reader.pos = Len(ListText)
    /\ scanner.currentPos = byteLength(SubSeq(ListText, 1, scanner.reader.pos))
    /\ FalseScans # {}
          => \A i, j \in 1..Len(ListLinesRead) :
                (IsBadLine(i) /\ i < j /\ BuildsRule(j))
                   => \E k \in TrueScans :
                         scanLog[k].rule = IndexedRule(RuleOfLine(j), BytesBefore(j))

(***************************************************************************)
(* Properties of the line readers                                          *)
(***************************************************************************)
\* C16 (checked under ReaderSpec): the k-th readLine() call on a StringLineReader
\* and on a FileLineReader returns the k-th physical line of the source with its
\* newline, and the end value only when the source has fewer than k lines.
C16_ReadersReturnLines ==
    \A kind \in {"StringLineReader", "FileLineReader"} :
        \A k \in 1..Len(lineReads[kind]) :
            lineReads[kind][k] = IF k <= Len(ListLinesRead)
                                 THEN LineRead(FALSE, ListLinesRead[k])
                                 ELSE EndOfLines

(***************************************************************************)
(* Properties of the network engine: counting                              *)
(***************************************************************************)
\* C18 (checked under AddRuleSpec): rulesCount is the number of addRule calls made.
\* Every call raises it by one, whether the rule went to the shortcuts table, to
\* the domains table or to otherRules, and also when otherRules held the rule
\* already and was left as it was.
C18_RulesCountCountsCalls ==
    /\ [](rulesCount = addRuleCalls)
    /\ [][rulesCount' = rulesCount + 1]_vars

\* One rule without shortcut and without domains was added twice: otherRules holds
\* it once and rulesCount is 2.
C18_Witness ==
    /\ addRuleCalls = 2
    /\ rulesCount = 2
    /\ Cardinality(DOMAIN ruleStorage) = 1
    /\ Len(otherRules) = 1

(***************************************************************************)
(* Properties of the engine's life                                         *)
(***************************************************************************)
\* Whether the list of matchAll results holds the rule at a storage index.
Returned(result, storageIdx) ==
    \E k \in 1..Len(result) :
        result[k].index = storageIdx /\ result[k].name = ruleStorage[storageIdx]

\* C14 (checked under LoadSpec): the index 0 is an index like any other.  After a
\* scan() that returned true getRule() gives a rule with its index, 0 included;
\* Engine.addRule gives every network rule it gets to the network engine, which
\* counts it; and when the list is loaded matchAll returns every rule of the storage
\* that matches the request, the one at index 0 as the ones after it.
C14_IndexZeroIsValid ==
    /\ [](\A k \in 1..Len(scanLog) :
             scanLog[k].ret => /\ scanLog[k].rule # NoIndexedRule
                               /\ scanLog[k].rule.rule # NullIRule
                               /\ scanLog[k].rule.index >= 0)
    /\ []((lifecycle.phase = "loaded" /\ lastMatch.op = "matchAll")
             => \A storageIdx \in DOMAIN ruleStorage :
                   ruleMatch(RuleObject(ruleStorage[storageIdx], storageIdx),
                             Request[lastMatch.request])
                      => Returned(lastMatch.result, storageIdx))
    /\ [][(lifecycle.phase = "scanned" /\ lifecycle'.phase = "loading"
              /\ scanner.currentRule.kind = "network")
             => /\ rulesCount' = rulesCount + 1
                /\ scanner.currentRuleIndex \in DOMAIN ruleStorage]_vars

\* A list whose first line is a rule was loaded, and matchAll returned the rule at
\* index 0 together with a rule at a later index.
C14_Witness ==
    /\ lifecycle.phase = "loaded"
    /\ lastMatch.op = "matchAll"
    /\ 0 \in DOMAIN ruleStorage
    /\ Returned(lastMatch.result, 0)
    /\ \E storageIdx \in DOMAIN ruleStorage :
          storageIdx > 0 /\ Returned(lastMatch.result, storageIdx)
    /\ scanLog # << >> /\ scanLog[1].ret /\ scanLog[1].rule.index = 0

\* C17 (checked under LoadSpec): an engine constructed with skipStorageScan = true
\* and not yet loaded has empty indexes: rulesCount is 0, the tables and otherRules
\* are empty and matchAll returns the empty list.
C17_SkipScanLeavesIndexesEmpty ==
    (lifecycle.skipStorageScan /\ lifecycle.phase = "constructed")
       => /\ rulesCount = 0
          /\ shortcutsLookupTable = EmptyMap
          /\ domainsLookupTable = EmptyMap
          /\ otherRules = << >>
          /\ lastMatch.op = "matchAll" => lastMatch.result = << >>

(***************************************************************************)
(* Properties of the network engine: the limit of the URL scan             *)
(***************************************************************************)
\* The hashes of the windows of SHORTCUT_LENGTH characters that lie inside the first
\* MAX_URL_LENGTH characters of the lowercased URL of a request.
ExaminedHashes ==
    [q \in LongRequestNames |->
        LET url == LongRequest[q].urlLowercase
            u == IF Len(url) < MAX_URL_LENGTH THEN Len(url) ELSE MAX_URL_LENGTH
        IN  {fastHashBetween(url, i, i + SHORTCUT_LENGTH) : i \in 0..(u - SHORTCUT_LENGTH)}]

\* The hashes under which the shortcuts table holds a storage index.
BucketsOf(storageIdx) ==
    {h \in DOMAIN shortcutsLookupTable : includes(shortcutsLookupTable[h], storageIdx)}

\* C19 (checked under CapSpec): the shortcut lookup stops at MAX_URL_LENGTH.  A rule
\* of the shortcuts table is returned by matchAll exactly when it matches the request
\* and its bucket's hash is the hash of a window inside the first
\* min(length, MAX_URL_LENGTH) characters of the lowercased URL: a window that
\* reaches past that limit is not examined, and a URL shorter than SHORTCUT_LENGTH
\* has no window.
C19_UrlScanCapped ==
    lastMatch.op = "matchAll"
       => \A storageIdx \in DOMAIN ruleStorage :
             BucketsOf(storageIdx) # {}
                => (Returned(lastMatch.result, storageIdx)
                      <=> /\ BucketsOf(storageIdx) \cap ExaminedHashes[lastMatch.request] # {}
                          /\ ruleMatch(RuleObject(ruleStorage[storageIdx], storageIdx),
                                       LongRequest[lastMatch.request]))

\* matchAll was called with a URL longer than MAX_URL_LENGTH and did not return a
\* rule of the shortcuts table that matches the request: the shortcut of the rule
\* is in the window that reaches past the limit.
C19_Witness ==
    /\ lastMatch.op = "matchAll"
    /\ Len(LongRequest[lastMatch.request].urlLowercase) > MAX_URL_LENGTH
    /\ \E storageIdx \in DOMAIN ruleStorage :
          /\ BucketsOf(storageIdx) # {}
          /\ ruleMatch(RuleObject(ruleStorage[storageIdx], storageIdx),
                       LongRequest[lastMatch.request])
          /\ ~Returned(lastMatch.result, storageIdx)

(***************************************************************************)
(* Cosmetic exceptions                                                     *)
(***************************************************************************)
\* The whitelist rules addRule was given so far.
AddedWhitelistRules == {addedRules[i] : i \in {k \in DOMAIN addedRules : isWhitelist(addedRules[k])}}

\* The rules x.io##.banner and x.io#@#.banner were both added.
ExceptionScenario == {"cHost", "cAllow"} \subseteq {addedRules[i] : i \in DOMAIN addedRules}

\* C20: cosmetic exception handling.  isWhitelisted(hostname, rule) returns true
\* exactly when one of the whitelist rules given to addRule so far has the content
\* of rule and matches hostname; and once x.io##.banner and x.io#@#.banner were
\* added, findByHostname of x.io returns the hiding rule, which is whitelisted on
\* x.io.
C20_WhitelistedIffException ==
    /\ lastLookup.op = "isWhitelisted"
        => (lastLookup.result
              <=> \E w \in AddedWhitelistRules :
                     /\ getContent(w) = getContent(lastLookup.rule)
                     /\ cosmeticMatch(w, lastLookup.hostname))
    /\ ExceptionScenario /\ lastLookup.op = "findByHostname" /\ lastLookup.hostname = <<"x",".","i","o">>
        => /\ IsIn(lastLookup.result, "cHost")
           /\ isWhitelisted(CosmeticTable, <<"x",".","i","o">>, "cHost")
    /\ ExceptionScenario /\ lastLookup.op = "isWhitelisted"
            /\ lastLookup.hostname = <<"x",".","i","o">> /\ lastLookup.rule = "cHost"
        => lastLookup.result

\* Both rules of the scenario were added and isWhitelisted told that the hiding
\* rule is whitelisted on x.io.
C20_Witness ==
    /\ ExceptionScenario
    /\ lastLookup.op = "isWhitelisted"
    /\ lastLookup.hostname = <<"x",".","i","o">>
    /\ lastLookup.rule = "cHost"
    /\ lastLookup.result

(***************************************************************************)
(* Lookup misses                                                           *)
(***************************************************************************)
\* The storage indexes the shortcuts table and the domains table hold.
TableIndexes ==
    UNION {Range(shortcutsLookupTable[h]) : h \in DOMAIN shortcutsLookupTable}
    \cup UNION {Range(domainsLookupTable[h]) : h \in DOMAIN domainsLookupTable}

\* The indexes of the tables for which the storage returns the absence value.
MissingIndexes == TableIndexes \ DOMAIN ruleStorage

\* C21: lookup misses are tolerated.  When matchAll has returned on an engine whose
\* tables hold storage indexes the storage does not know, the returned list has
\* no absence value and no rule of such an index taken from a table, and every
\* rule the storage still returns that matches the request is in the list.
C21_LookupMissTolerated ==
    lastMatch.op = "matchAll"
    => /\ \A k \in 1..Len(lastMatch.result) :
             /\ lastMatch.result[k] # NullRule
             /\ lastMatch.result[k].index \in MissingIndexes
                   => includes(otherRules, lastMatch.result[k])
       /\ \A r \in AddedRules :
             ruleMatch(r, Request[lastMatch.request]) => includes(lastMatch.result, r)

\* A bucket of the shortcuts table holds an index the storage does not know before
\* the index of a rule it knows, which matches the request and was returned; and
\* a bucket of the domains table that the lookup of the request's source hostname
\* visits holds an index the storage does not know.
C21_Witness ==
    /\ lastMatch.op = "matchAll"
    /\ \E h \in DOMAIN shortcutsLookupTable : \E i, j \in 1..Len(shortcutsLookupTable[h]) :
          /\ i < j
          /\ shortcutsLookupTable[h][i] \in MissingIndexes
          /\ shortcutsLookupTable[h][j] \in DOMAIN ruleStorage
          /\ Returned(lastMatch.result, shortcutsLookupTable[h][j])
    /\ LET domains == getSubdomains(Request[lastMatch.request].sourceHostname)
       IN  \E d \in 1..Len(domains) :
              /\ MapHas(domainsLookupTable, fastHash(domains[d]))
              /\ Range(domainsLookupTable[fastHash(domains[d])]) \cap MissingIndexes # {}

(***************************************************************************)
(* Placement of the rules in the network engine (checked under AddRuleSpec)*)
(***************************************************************************)
\* All substrings of length SHORTCUT_LENGTH of a shortcut.
AllSubstrings(shortcut) ==
    {substring(shortcut, i, i + SHORTCUT_LENGTH) : i \in 0..(Len(shortcut) - SHORTCUT_LENGTH)}

\* The shortcut of the rule is one the claim has placed in the shortcuts table: at
\* least SHORTCUT_LENGTH long and not a catch-all one.
HasUsableShortcut(name) ==
    /\ Len(getShortcut(NetworkRule[name])) >= SHORTCUT_LENGTH
    /\ ~isAnyURLShortcut(NetworkRule[name])

\* C22: shortcut placement uses all length-5 substrings.  After addRule of a rule
\* whose shortcut has at least 5 characters and is not a catch-all shortcut, the
\* rule's storage index is in the shortcuts table under the hash of a length-5
\* substring of the shortcut, and the candidates the choice was made from are all
\* the length-5 substrings of the shortcut, the last one included.
C22_AllSubstringsAreCandidates ==
    lastAdd.op = "addRule" /\ HasUsableShortcut(lastAdd.name)
    => LET all == AllSubstrings(getShortcut(NetworkRule[lastAdd.name]))
       IN  /\ \E s \in all :
                 /\ MapHas(shortcutsLookupTable, fastHash(s))
                 /\ includes(shortcutsLookupTable[fastHash(s)], lastAdd.index)
           /\ Range(lastAdd.shortcuts) = all

\* The count the histogram has for a hash.
CountOf(histogram, hash) == IF MapHas(histogram, hash) THEN histogram[hash] ELSE 0

\* The position of the first of the candidates whose hash has the smallest count.
FirstLeastUsed(histogram, candidates) ==
    CHOOSE i \in 1..Len(candidates) :
        /\ \A j \in 1..Len(candidates) :
              CountOf(histogram, fastHash(candidates[i]))
                  <= CountOf(histogram, fastHash(candidates[j]))
        /\ \A j \in 1..(i - 1) :
              CountOf(histogram, fastHash(candidates[i]))
                  < CountOf(histogram, fastHash(candidates[j]))

\* C23: least-used shortcut selection.  An addRule call for a rule with candidate
\* shortcuts takes the first, left to right, of the candidates whose hash has the
\* smallest count in shortcutsHistogram, raises the count of that hash by one and
\* appends the storage index to the end of the list of that hash; every other
\* count and every other bucket stay as they were.
C23_LeastUsedShortcut ==
    [][(addRuleCalls' # addRuleCalls /\ lastAdd'.shortcuts # << >>)
        => LET candidates == lastAdd'.shortcuts
               hash == fastHash(candidates[FirstLeastUsed(shortcutsHistogram, candidates)])
           IN  /\ DOMAIN shortcutsHistogram' = DOMAIN shortcutsHistogram \cup {hash}
               /\ \A h \in DOMAIN shortcutsHistogram' :
                     shortcutsHistogram'[h] = CountOf(shortcutsHistogram, h)
                                                + (IF h = hash THEN 1 ELSE 0)
               /\ DOMAIN shortcutsLookupTable' = DOMAIN shortcutsLookupTable \cup {hash}
               /\ \A h \in DOMAIN shortcutsLookupTable' :
                     shortcutsLookupTable'[h] =
                        (IF MapHas(shortcutsLookupTable, h) THEN shortcutsLookupTable[h]
                         ELSE << >>)
                        \o (IF h = hash THEN <<lastAdd'.index>> ELSE << >>)]_vars

\* The last addRule had several candidates, the hash of the first of them had been
\* used before, and the rule went to the end of the bucket of a later candidate.
C23_Witness ==
    /\ lastAdd.op = "addRule"
    /\ Len(lastAdd.shortcuts) > 1
    /\ CountOf(shortcutsHistogram, fastHash(lastAdd.shortcuts[1])) >= 1
    /\ \E i \in 2..Len(lastAdd.shortcuts) :
          LET h == fastHash(lastAdd.shortcuts[i])
          IN  /\ h # fastHash(lastAdd.shortcuts[1])
              /\ MapHas(shortcutsLookupTable, h)
              /\ shortcutsLookupTable[h][Len(shortcutsLookupTable[h])] = lastAdd.index

\* The bucket of a hash, empty when the table has none.
BucketOf(table, hash) == IF MapHas(table, hash) THEN table[hash] ELSE << >>

\* How often a storage index is in the buckets of a table.
TimesInTable(table, storageIdx) ==
    LET RECURSIVE Sum(_)
        Sum(hs) == IF hs = {} THEN 0
                   ELSE LET h == CHOOSE x \in hs : TRUE
                        IN  Len(SelectSeq(table[h], LAMBDA x : x = storageIdx)) + Sum(hs \ {h})
    IN  Sum(DOMAIN table)

\* C24: each addRule call places the rule in exactly one of the three structures,
\* by priority.  With a shortcut candidate the storage index goes once to the
\* shortcuts table and the domains table and otherRules stay as they were; else,
\* with permitted domains, the index is appended once under the hash of every
\* permitted domain and the shortcuts table and otherRules stay as they were;
\* else both tables stay as they were and the rule object is appended to
\* otherRules unless it is there already.
C24_PlacedInOneStructure ==
    [][addRuleCalls' # addRuleCalls
        => LET storageIdx == lastAdd'.index
               ruleObj == RuleObject(lastAdd'.name, storageIdx)
               domains == getPermittedDomains(NetworkRule[lastAdd'.name])
           IN  IF lastAdd'.shortcuts # << >>
               THEN /\ TimesInTable(shortcutsLookupTable', storageIdx)
                          = TimesInTable(shortcutsLookupTable, storageIdx) + 1
                    /\ UNCHANGED <<domainsLookupTable, otherRules>>
               ELSE IF domains # << >>
               THEN /\ UNCHANGED <<shortcutsLookupTable, shortcutsHistogram, otherRules>>
                    /\ DOMAIN domainsLookupTable'
                          = DOMAIN domainsLookupTable
                              \cup {fastHash(domains[i]) : i \in 1..Len(domains)}
                    /\ \A h \in DOMAIN domainsLookupTable' :
                          domainsLookupTable'[h] =
                             BucketOf(domainsLookupTable, h)
                             \o [k \in 1..Cardinality({i \in 1..Len(domains) :
                                                          fastHash(domains[i]) = h}) |->
                                    storageIdx]
               ELSE /\ UNCHANGED <<shortcutsLookupTable, shortcutsHistogram,
                                   domainsLookupTable>>
                    /\ otherRules' = IF includes(otherRules, ruleObj) THEN otherRules
                                     ELSE Append(otherRules, ruleObj)
                    /\ Len(SelectSeq(otherRules', LAMBDA r : r = ruleObj)) = 1]_vars

\* The last addRule was given, a second time, a rule object that has no shortcut
\* candidate and no permitted domain: otherRules holds it once; and a rule with
\* two permitted domains is in two buckets of the domains table and in no bucket
\* of the shortcuts table.
C24_Witness ==
    /\ lastAdd.op = "addRule"
    /\ lastAdd.shortcuts = << >>
    /\ getPermittedDomains(NetworkRule[lastAdd.name]) = << >>
    /\ rulesCount > Cardinality(DOMAIN ruleStorage)
    /\ \E storageIdx \in DOMAIN ruleStorage : storageIdx > lastAdd.index
    /\ Len(SelectSeq(otherRules, LAMBDA r : r = RuleObject(lastAdd.name, lastAdd.index))) = 1
    /\ \E storageIdx \in DOMAIN ruleStorage :
          /\ Len(getPermittedDomains(NetworkRule[ruleStorage[storageIdx]])) = 2
          /\ TimesInTable(domainsLookupTable, storageIdx) = 2
          /\ TimesInTable(shortcutsLookupTable, storageIdx) = 0

(***************************************************************************)
(* Order of the matches (checked under NetSpec)                            *)
(***************************************************************************)
\* The sequences of a sequence, one after the other.
RECURSIVE Flatten(_)
Flatten(seqs) == IF seqs = << >> THEN << >> ELSE Head(seqs) \o Flatten(Tail(seqs))

\* The rules of the bucket of a hash that the storage returns and that match, in
\* the order of the bucket.
BucketMatches(table, hash, request) ==
    LET bucket == BucketOf(table, hash)
    IN  SelectSeq([k \in 1..Len(bucket) |-> retrieveNetworkRule(ruleStorage, bucket[k])],
                  LAMBDA r : r # NullRule /\ ruleMatch(r, request))

\* The matches of the shortcuts table by increasing window position.
ShortcutMatchesInOrder(request) ==
    LET url == request.urlLowercase
        u == IF Len(url) > MAX_URL_LENGTH THEN MAX_URL_LENGTH ELSE Len(url)
    IN  Flatten([i \in 1..(u - SHORTCUT_LENGTH + 1) |->
                    BucketMatches(shortcutsLookupTable,
                                  fastHash(SubSeq(url, i, i + SHORTCUT_LENGTH - 1)), request)])

\* The suffixes of a hostname that start at a label: the hostname itself down to
\* its top-level domain.
Suffixes(hostname) ==
    {SubSeq(hostname, i, Len(hostname)) :
        i \in {j \in 1..Len(hostname) : j = 1 \/ hostname[j - 1] = "."}}

\* How often the domains table gives a rule object for the source hostname of a
\* request: once for every place its index has in the bucket of a suffix, when the
\* rule matches.
DomainMatchCount(ruleObj, request) ==
    LET RECURSIVE Sum(_)
        Sum(ds) == IF ds = {} THEN 0
                   ELSE LET d == CHOOSE x \in ds : TRUE
                        IN  Len(SelectSeq(BucketMatches(domainsLookupTable, fastHash(d), request),
                                          LAMBDA r : r = ruleObj))
                            + Sum(ds \ {d})
    IN  Sum(Suffixes(request.sourceHostname))

\* C25: the order of the list matchAll returns.  The list starts with the matches
\* of the shortcuts table, by increasing position of the URL window and, within a
\* window, in the order of the bucket; it ends with the matches of otherRules in
\* the order of otherRules; and what is in between are the matches of the domains
\* table, each as often as the table gives it.
C25_MatchAllOrder ==
    lastMatch.op = "matchAll"
    => LET request == Request[lastMatch.request]
           result == lastMatch.result
           s == ShortcutMatchesInOrder(request)
           o == SelectSeq(otherRules, LAMBDA r : ruleMatch(r, request))
           d == SubSeq(result, Len(s) + 1, Len(result) - Len(o))
       IN  /\ Len(result) >= Len(s) + Len(o)
           /\ SubSeq(result, 1, Len(s)) = s
           /\ SubSeq(result, Len(result) - Len(o) + 1, Len(result)) = o
           /\ \A r \in Range(d) \cup AddedRules :
                 Len(SelectSeq(d, LAMBDA x : x = r)) = DomainMatchCount(r, request)

\* matchAll returned three rules: the first from the shortcuts table, the second
\* from the domains table, the third from otherRules.
C25_Witness ==
    /\ lastMatch.op = "matchAll"
    /\ Len(lastMatch.result) = 3
    /\ InShortcutsTable(lastMatch.result[1])
    /\ InDomainsTable(lastMatch.result[2])
    /\ includes(otherRules, lastMatch.result[3])

\* The suffixes of a hostname from the hostname itself down to its top-level domain.
SuffixesMostSpecificFirst(hostname) ==
    LET starts == SelectSeq([j \in 1..Len(hostname) |-> j],
                            LAMBDA j : j = 1 \/ hostname[j - 1] = ".")
    IN  [k \in 1..Len(starts) |-> SubSeq(hostname, starts[k], Len(hostname))]

\* C26 (checked under DomainSpec): the domain lookup of matchAll goes from the most
\* specific suffix of request.sourceHostname to the top-level domain.  In the list
\* matchAll returns, between the matches of the shortcuts table and those of
\* otherRules, are the matches of the bucket of the full source hostname, then
\* those of the bucket of its parent domain, and so on down to the top-level
\* domain; a request with no source hostname has nothing there.
C26_MostSpecificDomainFirst ==
    lastMatch.op = "matchAll"
    => LET request == Request[lastMatch.request]
           result == lastMatch.result
           s == ShortcutMatchesInOrder(request)
           o == SelectSeq(otherRules, LAMBDA r : ruleMatch(r, request))
           domains == SuffixesMostSpecificFirst(request.sourceHostname)
       IN  SubSeq(result, Len(s) + 1, Len(result) - Len(o))
              = Flatten([k \in 1..Len(domains) |->
                            BucketMatches(domainsLookupTable, fastHash(domains[k]), request)])

(***************************************************************************)
(* More on the request phase of the cookie filter (checked under           *)
(* CookiePhasesSpec)                                                       *)
(***************************************************************************)
\* The entries the call appended for a cookie name.
AppendedFor(name) == SelectSeq(AppendedEntries, LAMBDA e : e.cookie.name = name)

\* C27: a non-modifying rule suppresses modifying rules.  For a cookie of the
\* header whose name is matched by a non-modifying rule of cookieRules, at whatever
\* place in the list, processRequestHeaders appends no {remove: false} entry; and
\* for every cookie name the call appends at most as many entries as the header
\* has cookies of that name.
C27_NotModifyingSuppresses ==
    AfterRequestPhase
    => /\ AppendsOnly
       /\ \A i \in 1..Len(CookiesBefore) :
             LET name == CookiesBefore[i].name
             IN  /\ NotModifyingRules(name) # << >>
                    => \A k \in 1..Len(AppendedFor(name)) : AppendedFor(name)[k].remove
                 /\ Len(AppendedFor(name)) <= Occurrences(name)
       /\ Len(AppendedEntries) <= Len(CookiesBefore)

\* The rules of the call are a modifying rule followed by a non-modifying rule, both
\* matching a cookie of the header, and the call appended an entry for the cookie.
C27_Witness ==
    /\ AfterRequestPhase
    /\ Len(lastRequestPhase.cookieRules) = 2
    /\ isModifyingRule(lastRequestPhase.cookieRules[1])
    /\ ~isModifyingRule(lastRequestPhase.cookieRules[2])
    /\ \E i \in 1..Len(CookiesBefore) :
          /\ Len(MatchingRules(CookiesBefore[i].name)) = 2
          /\ AppendedFor(CookiesBefore[i].name) # << >>

\* The headers of the call hold a header named Cookie, in whatever case.
HasCookieHeader ==
    \E k \in 1..Len(lastRequestPhase.requestHeaders) :
        toLowerCase(lastRequestPhase.requestHeaders[k].name) = <<"c","o","o","k","i","e">>

\* The first header named Cookie holds no name=value pair.
HasNoPair ==
    \E k \in 1..Len(lastRequestPhase.requestHeaders) :
        /\ toLowerCase(lastRequestPhase.requestHeaders[k].name) = <<"c","o","o","k","i","e">>
        /\ \A j \in 1..(k - 1) :
              toLowerCase(lastRequestPhase.requestHeaders[j].name) # <<"c","o","o","k","i","e">>
        /\ ~IsIn(lastRequestPhase.requestHeaders[k].value, "=")

\* C28: what processRequestHeaders returns.  It returns true exactly when it dropped
\* a cookie, and then the value of the Cookie header is the list of the cookies it
\* kept; when it returns false the headers are what they were; and with no rule,
\* no Cookie header or no name=value pair in the header it returns false and the
\* schedule is what it was.
C28_ReturnsTrueIffDropped ==
    AfterRequestPhase
    => /\ lastRequestPhase.ret \in BOOLEAN
       /\ lastRequestPhase.ret <=> Len(CookiesAfter) < Len(CookiesBefore)
       /\ lastRequestPhase.ret
             => /\ lastRequestPhase.headers # lastRequestPhase.requestHeaders
                /\ lastRequestPhase.headers[CookieHeaderAt].value = joinCookies(CookiesAfter)
                /\ OtherHeadersKept
       /\ ~lastRequestPhase.ret
             => lastRequestPhase.headers = lastRequestPhase.requestHeaders
       /\ (lastRequestPhase.cookieRules = << >> \/ ~HasCookieHeader \/ HasNoPair)
             => /\ ~lastRequestPhase.ret
                /\ cookiesMap = lastRequestPhase.mapBefore

\* The call returned false although rules match a cookie of the header and it
\* scheduled an entry: the header, written cookie in lower case, is unchanged.
C28_Witness ==
    /\ AfterRequestPhase
    /\ ~lastRequestPhase.ret
    /\ AppendedEntries # << >>
    /\ lastRequestPhase.requestHeaders[CookieHeaderAt].name = <<"c","o","o","k","i","e">>
    /\ lastRequestPhase.headers = lastRequestPhase.requestHeaders

(***************************************************************************)
(* Placement and lookup of cosmetic rules (checked under CosmeticSpec)     *)
(***************************************************************************)
\* The rule the addRule call of a step was given.
JustAdded == addedRules'[Len(addedRules')]

\* The domain patterns of a rule, as a set.
DomainsOf(name) == Range(CosmeticRule[name].permittedDomains)

\* byHostname after the rule was appended to the list of each of its domains, once
\* for every place the domain has among the rule's domains.
FiledByDomains(map, name) ==
    LET domains == CosmeticRule[name].permittedDomains
    IN  [d \in (DOMAIN map) \cup DomainsOf(name) |->
            BucketOf(map, d)
            \o [k \in 1..Cardinality({i \in 1..Len(domains) : domains[i] = d}) |-> name]]

\* C29: cosmetic rule placement.  An addRule call changes one kind of collection:
\* the list whitelist[content] for a whitelist rule; else genericRules for a
\* generic rule; else wildcardRules for a rule with a wildcard domain; else the
\* byHostname list of every permitted domain.  No whitelist rule is ever in
\* byHostname, wildcardRules or genericRules.
C29_CosmeticPlacement ==
    /\ [][cosmeticAdded' # cosmeticAdded
            => IF isWhitelist(JustAdded)
               THEN /\ whitelist' = MapSet(whitelist, getContent(JustAdded),
                                          Append(BucketOf(whitelist, getContent(JustAdded)),
                                                 JustAdded))
                    /\ UNCHANGED <<byHostname, wildcardRules, genericRules>>
               ELSE IF isGeneric(JustAdded)
               THEN /\ genericRules' = Append(genericRules, JustAdded)
                    /\ UNCHANGED <<byHostname, wildcardRules, whitelist>>
               ELSE IF \E d \in DomainsOf(JustAdded) : isWildcardDomain(d)
               THEN /\ wildcardRules' = Append(wildcardRules, JustAdded)
                    /\ UNCHANGED <<byHostname, genericRules, whitelist>>
               ELSE /\ byHostname' = FiledByDomains(byHostname, JustAdded)
                    /\ UNCHANGED <<wildcardRules, genericRules, whitelist>>]_vars
    /\ [](\A name \in CosmeticRuleNames :
             isWhitelist(name)
             => /\ ~IsIn(wildcardRules, name)
                /\ ~IsIn(genericRules, name)
                /\ \A d \in DOMAIN byHostname : ~IsIn(byHostname[d], name))

\* The table was given a rule with two domains, a rule with a wildcard domain and,
\* last, a whitelist rule with a wildcard domain: the first is in the byHostname
\* list of each of its domains, the second in wildcardRules, the third under its
\* content in whitelist.
C29_Witness ==
    /\ lastLookup = NoLookup
    /\ Len(addedRules) = 3
    /\ LET w == addedRules[3]
       IN  /\ isWhitelist(w)
           /\ \E d \in DomainsOf(w) : isWildcardDomain(d)
           /\ IsIn(BucketOf(whitelist, getContent(w)), w)
    /\ \E name \in Range(wildcardRules) : ~isWhitelist(name)
    /\ \E name \in Range(addedRules) :
          /\ Cardinality(DomainsOf(name)) = 2
          /\ \A d \in DomainsOf(name) : IsIn(BucketOf(byHostname, d), name)

\* The rule went to the byHostname lists when it was added.
FiledByHostname(name) ==
    /\ ~isWhitelist(name)
    /\ ~isGeneric(name)
    /\ \A d \in DomainsOf(name) : ~isWildcardDomain(d)

\* The rule went to wildcardRules when it was added.
FiledAsWildcard(name) ==
    /\ ~isWhitelist(name)
    /\ ~isGeneric(name)
    /\ \E d \in DomainsOf(name) : isWildcardDomain(d)

\* The rules addRule stored under byHostname[hostname], in the order of the calls:
\* a rule once for every place the hostname has among its domains.
StoredUnder(hostname) ==
    Flatten([k \in 1..Len(addedRules) |->
                LET domains == CosmeticRule[addedRules[k]].permittedDomains
                IN  IF FiledByHostname(addedRules[k])
                    THEN [i \in 1..Cardinality({j \in 1..Len(domains) : domains[j] = hostname})
                             |-> addedRules[k]]
                    ELSE << >>])

\* The rules of wildcardRules that match the hostname, in the order of the calls.
MatchingWildcards(hostname) ==
    SelectSeq(addedRules, LAMBDA r : FiledAsWildcard(r) /\ cosmeticMatch(r, hostname))

\* C30: findByHostname(hostname) returns the rules addRule stored under
\* byHostname[hostname] followed by the rules of wildcardRules that match the
\* hostname, each as often as it was added, whatever addRule and findByHostname
\* calls were made before; for a hostname without byHostname entry these are the
\* matching wildcard rules alone.
C30_FindByHostnameExact ==
    lastLookup.op = "findByHostname"
    => lastLookup.result
          = StoredUnder(lastLookup.hostname) \o MatchingWildcards(lastLookup.hostname)

(***************************************************************************)
(* Hash keys (checked under AddRuleSpec)                                   *)
(***************************************************************************)
\* The hash value is at most 2^32 - 1 = 429 * HashLimb + 4967295.
IsUint32(hash) ==
    /\ hash[1] >= 0 /\ hash[2] >= 0
    /\ hash[1] < 429 \/ (hash[1] = 429 /\ hash[2] <= 4967295)

\* C32: hash keys are 32-bit.  Every key of the shortcuts table, the histogram and
\* the domains table, each a value of fastHash, is in the range 0 .. 2^32 - 1.
C32_HashKeysAre32Bit ==
    \A hash \in DOMAIN shortcutsLookupTable \cup DOMAIN shortcutsHistogram
                    \cup DOMAIN domainsLookupTable :
        IsUint32(hash)

(***************************************************************************)
(* Properties of the scanner: the current rule                             *)
(***************************************************************************)
\* What getRule() has to return after the first n scan() calls: the absence value
\* when none of them returned true, and otherwise the rule of the line the last one
\* that returned true stopped at, with the byte offset of that line.
MostRecentRule(n) ==
    LET successful == Cardinality({k \in TrueScans : k <= n})
    IN  IF successful = 0 \/ successful > Len(RuleLines) THEN NoIndexedRule
        ELSE IndexedRule(RuleOfLine(RuleLines[successful]),
                         BytesBefore(RuleLines[successful]))

\* C33 (checked under ScanSpec): getRule() reflects the most recent successful scan.
\* The getRule() after every scan() call, and every getRule() call made at any other
\* time, returns the absence value while no scan() has returned true and afterwards
\* the rule and the index of the last scan() that returned true; a scan() that
\* returns false leaves the value as it was.
C33_GetRuleReflectsLastScan ==
    /\ [](\A n \in 1..Len(scanLog) : scanLog[n].rule = MostRecentRule(n))
    /\ [][lastGetRule' # lastGetRule
             => lastGetRule'.result = MostRecentRule(Len(scanLog))]_vars
    /\ [][(Len(scanLog') = Len(scanLog) + 1 /\ ~scanLog'[Len(scanLog')].ret)
             => getRule(scanner') = getRule(scanner)]_vars

\* scan() returned true and then false, and the getRule() call after the false one
\* returned the rule of the true one.
C33_Witness ==
    /\ Len(scanLog) >= 2
    /\ scanLog[Len(scanLog) - 1].ret
    /\ ~scanLog[Len(scanLog)].ret
    /\ lastGetRule.called
    /\ lastGetRule.result # NoIndexedRule
    /\ lastGetRule.result = scanLog[Len(scanLog) - 1].rule

(***************************************************************************)
(* Properties of the network engine: the histogram                         *)
(***************************************************************************)
\* The sum of the counts of a histogram.
HistogramSum(histogram) ==
    LET RECURSIVE Sum(_)
        Sum(hs) == IF hs = {} THEN 0
                   ELSE LET h == CHOOSE x \in hs : TRUE
                        IN  histogram[h] + Sum(hs \ {h})
    IN  Sum(DOMAIN histogram)

\* The addRule calls counted so far that did not go to the shortcuts table.
CountedElsewhere == rulesCount - HistogramSum(shortcutsHistogram)

\* C34 (checked under AddRuleSpec): the histogram is consistent with the shortcuts
\* table and with rulesCount.  In every state the count of every hash, 0 when the
\* histogram has none, is the length of the hash's bucket in the shortcuts table; and
\* rulesCount is the sum of the counts plus the number of addRule calls that went to
\* the domains table or to otherRules: it is so with no rule added, a call that leaves
\* the shortcuts table as it was raises the difference by one, and a call that files
\* the rule in the shortcuts table leaves the difference as it was.
C34_HistogramConsistent ==
    /\ [](\A hash \in DOMAIN shortcutsHistogram \cup DOMAIN shortcutsLookupTable :
             CountOf(shortcutsHistogram, hash) = Len(BucketOf(shortcutsLookupTable, hash)))
    /\ [](addRuleCalls = 0 => CountedElsewhere = 0)
    /\ [](CountedElsewhere >= 0)
    /\ [][addRuleCalls' = addRuleCalls + 1
             => CountedElsewhere' =
                   CountedElsewhere
                   + (IF shortcutsLookupTable' = shortcutsLookupTable THEN 1 ELSE 0)]_vars

\* One shortcut bucket holds two rules, and a call that went to the domains table or
\* to otherRules was counted as well.
C34_Witness ==
    /\ \E hash \in DOMAIN shortcutsHistogram : shortcutsHistogram[hash] = 2
    /\ CountedElsewhere >= 1
    /\ rulesCount = MaxRules

(***************************************************************************)
(* Properties of the cookie filter: the entries of the map                 *)
(***************************************************************************)
\* C35 (checked under CookieSpec): the cookie map holds no empty entry list, and a
\* modifyCookies call for a request id with nothing scheduled, because nothing was
\* ever scheduled for it or because an earlier modifyCookies drained it, makes no
\* call to the cookie API, handles no entry and leaves the map as it was.
C35_NoEmptySchedule ==
    /\ \A requestId \in DOMAIN cookiesMap : cookiesMap[requestId] # << >>
    /\ (/\ lastResponsePhase.op = "modifyCookies"
        /\ Scheduled(lastResponsePhase.mapBefore, lastResponsePhase.requestId) = << >>)
          => /\ lastResponsePhase.calls = << >>
             /\ lastResponsePhase.handled = << >>
             /\ lastResponsePhase.applications = << >>
             /\ cookiesMap = lastResponsePhase.mapBefore
             /\ lastResponsePhase.requestId \notin DOMAIN cookiesMap

\* The last request phase scheduled entries for a request id, a modifyCookies call
\* drained them, and the modifyCookies call after it, for the same request id, found
\* nothing, while entries of another request id are still scheduled.
C35_Witness ==
    /\ lastResponsePhase.op = "modifyCookies"
    /\ lastRequestPhase.op = "processRequestHeaders"
    /\ lastRequestPhase.request.requestId = lastResponsePhase.requestId
    /\ Scheduled(processRequestHeaders(lastRequestPhase.mapBefore, lastRequestPhase.request,
                                       lastRequestPhase.requestHeaders,
                                       lastRequestPhase.cookieRules).map,
                 lastResponsePhase.requestId) # << >>
    /\ Scheduled(lastResponsePhase.mapBefore, lastResponsePhase.requestId) = << >>
    /\ DOMAIN cookiesMap # {}

(***************************************************************************)
(* Properties of the engine: loading with and without suspensions          *)
(***************************************************************************)
\* The network engine as the constructor left it, over the list of the storage.
ConstructedEngine ==
    constructorScan(NewNetworkEngine, createRuleStorageScanner(lifecycle.list),
                    lifecycle.skipStorageScan)

\* The engines after Engine.addRule was called with the first k rules of the scan.
RECURSIVE loadPrefix(_, _, _)
loadPrefix(e, sc, k) ==
    LET r == scan(sc)
    IN  IF k = 0 \/ ~r.ret THEN e
        ELSE CHOOSE loaded \in
                 {loadPrefix(added, rest, k - 1) :
                     added \in {engineAddRule(e, getRule(r.scanner))},
                     rest \in {r.scanner}} : TRUE

\* The engines a load leaves that was called on the constructed engine and added
\* the first k rules.
LoadedPrefix(k) ==
    loadPrefix([network |-> ConstructedEngine, cosmeticRules |-> << >>],
               createRuleStorageScanner(lifecycle.list), k)

\* The engines loadRules leaves when it is called on the constructed engine.
LoadedBySync ==
    loadRules([network |-> ConstructedEngine, cosmeticRules |-> << >>],
              createRuleStorageScanner(lifecycle.list)).engines

\* The engines of the current state.
CurrentEngines ==
    [network |-> CurrentNetworkEngine, cosmeticRules |-> lifecycle.cosmeticRules]

Loading == lifecycle.phase \in {"loading", "scanned", "adding"}

\* What a load does whatever the bound on the rules between two suspensions is: a
\* load that was started ends, and it is never held up with scanner.scan() to call
\* and the calls of the scanner used up; when it has ended the engines are those loadRules
\* leaves; loadRules is never suspended; and a suspended loadRulesAsync has added
\* the rules before the one it scanned last, each of them wholly.
LoadsAlike ==
    /\ Loading ~> lifecycle.phase = "loaded"
    /\ [](lifecycle.phase = "loading" => Cardinality(FalseScans) <= MaxEndScans)
    /\ [](lifecycle.phase = "loaded" => CurrentEngines = LoadedBySync)
    /\ [](lifecycle.mode = "sync" => lifecycle.suspensions = 0 /\ ~Loading)
    /\ [](lifecycle.phase = "scanned"
             => CurrentEngines = LoadedPrefix(Cardinality(TrueScans) - 1))

\* C31 as stated (checked under ChunkFairSpec): loadRulesAsync(chunkSize) ends for
\* every chunkSize and leaves the engines as loadRules does, it is suspended only
\* between rules and loadRules never, and between two consecutive suspensions at most
\* chunkSize rules are added.
C31_AtMostChunkSizeRules ==
    /\ LoadsAlike
    /\ [](lifecycle.suspensions >= 2 => lifecycle.between <= lifecycle.chunkSize)

\* The larger of two numbers.
Larger(a, b) == IF a >= b THEN a ELSE b

\* C31, amended: as above, with at most chunkSize rules between two consecutive
\* suspensions when chunkSize is 1 or more, and one rule when chunkSize is less
\* than 1: loadRulesAsync is then suspended before every rule.
C31_AsyncLoadEquivalent ==
    /\ LoadsAlike
    /\ [](lifecycle.suspensions >= 2
             => lifecycle.between <= Larger(lifecycle.chunkSize, 1))
    /\ []((lifecycle.suspensions >= 2 /\ lifecycle.chunkSize < 1)
             => lifecycle.between = 1)

\* loadRulesAsync(2) has loaded a list of four rules, a cosmetic rule among them: it
\* was suspended twice, with two rules added in between.
C31_Witness ==
    /\ lifecycle.phase = "loaded"
    /\ lifecycle.mode = "async"
    /\ lifecycle.chunkSize = 2
    /\ lifecycle.suspensions = 2
    /\ lifecycle.between = 2
    /\ lifecycle.cosmeticRules # << >>
    /\ rulesCount > ConstructedEngine.rulesCount

(***************************************************************************)
(* Properties of the engine: matching while a load is suspended            *)
(***************************************************************************)
\* How many entries the indexes n of a network engine hold for a storage index: in
\* the buckets of the two tables and in otherRules.
Placed(n, storageIdx) ==
    TimesInTable(n.shortcutsLookupTable, storageIdx)
    + TimesInTable(n.domainsLookupTable, storageIdx)
    + Len(SelectSeq(n.otherRules, LAMBDA r : r.index = storageIdx))

\* How many entries one addRule call makes for a rule: one in the shortcuts table, or
\* one under every permitted domain, or one in otherRules.
PlacesOf(rule) ==
    IF getRuleShortcuts(rule) # << >> THEN 1
    ELSE IF getPermittedDomains(rule) # << >> THEN Len(getPermittedDomains(rule))
    ELSE 1

\* The rules loadRulesAsync has added when it is suspended: all that it scanned but
\* the last, which it adds when it is resumed.
AddedByLoad == Cardinality(TrueScans) - 1

\* The places in the scan order of the network rules among the first k rules.
NetworkRulesAmong(k) ==
    {p \in 1..Len(RuleLines) : p <= k /\ RuleOfLine(RuleLines[p]).kind = "network"}

\* C36 (checked under ChunkSpec): a matchRequest that runs while loadRulesAsync is
\* suspended finds a consistent part of the index.  The rules the load has added are
\* the first rules of the scan order; each of them has all its entries in its table
\* on top of those the constructor made, and every later rule has none; rulesCount
\* has grown by the number of the network rules added, no more and no less; and what
\* matchRequest returns is what it returns on the engine that was given exactly
\* these rules.
C36_SuspendedLoadIsConsistent ==
    (lifecycle.phase = "scanned" /\ lastMatch.op = "matchRequest")
       => LET constructed == ConstructedEngine
              lines == RuleLines
              added == AddedByLoad
              n == LoadedPrefix(added).network
          IN  /\ added \in 0..(Len(lines) - 1)
              /\ \A p \in 1..Len(lines) :
                    LET rule == RuleOfLine(lines[p])
                        storageIdx == BytesBefore(lines[p])
                    IN  rule.kind = "network"
                           => Placed(CurrentNetworkEngine, storageIdx)
                                 - Placed(constructed, storageIdx)
                              = IF p <= added
                                THEN PlacesOf(NetworkRule[NetworkRuleNamed(rule.text)])
                                ELSE 0
              /\ rulesCount - constructed.rulesCount
                    = Cardinality(NetworkRulesAmong(added))
              /\ lastMatch.result
                    = matchRequest([storage |-> ruleStorage,
                                    shortcuts |-> n.shortcutsLookupTable,
                                    domains |-> n.domainsLookupTable,
                                    others |-> n.otherRules],
                                   Request[lastMatch.request])

\* loadRulesAsync is suspended with a rule of two permitted domains added and a
\* network rule scanned and not yet added, and a matchRequest that ran meanwhile
\* returned a rule.
C36_Witness ==
    /\ lifecycle.phase = "scanned"
    /\ lastMatch.op = "matchRequest"
    /\ lastMatch.result.networkRules # << >>
    /\ \E p \in NetworkRulesAmong(AddedByLoad) :
          PlacesOf(NetworkRule[NetworkRuleNamed(RuleOfLine(RuleLines[p]).text)]) = 2
    /\ RuleOfLine(RuleLines[AddedByLoad + 1]).kind = "network"
    /\ lifecycle.cosmeticRules # << >>
=============================================================================
